---------------------------- MODULE Spec2Model ----------------------------
(***************************************************************************)
(* FUZOJ judge core: one Judger::Judge() run over a sandboxed program      *)
(* tree (compile -> one run node per test case -> one checker per run      *)
(* node), the runner's and grader's interpretation of the executed nodes   *)
(* and Judger::Converge.  Modelled from Judge/src/judger.cc,               *)
(* Judge/src/Judger/CppJudger.cc, Judge/src/Sandbox.cc, Judge/src/CGroup.cc*)
(***************************************************************************)
EXTENDS Integers, Sequences, FiniteSets, TLC

(***************************************************************************)
(* Bounds of the model.                                                    *)
(***************************************************************************)
\* largest number of test cases of a problem
MaxCases == 2
\* largest full score of a test case
MaxScore == 2

(***************************************************************************)
(* Program constants.                                                      *)
(***************************************************************************)
SIGFPE == 8
SIGKILL == 9
SIGSEGV == 11
SIGSYS == 31
\* std::nullopt of the optional limits of a SandboxProgram
NullOpt == -1

\* limits of a test case (TestCase::time_limit_, TestCase::mem_limit_), in
\* the model's units; the compile node's memory ceiling
TimeLimit == 1
MemLimit == 1
NThreads == 2
\* the mkdir calls of other threads during one CGroup::CGroup call
MaxOthers == 4
MaxPrograms == 2
MaxLen == 3
kCompileMemLimit == 1024 * 1024 * 1024

(***************************************************************************)
(* <sys/wait.h> on Linux: a wait status is (exit code << 8) | signal.      *)
(***************************************************************************)
WIFEXITED(s) == (s % 128) = 0
WEXITSTATUS(s) == (s \div 256) % 256
WTERMSIG(s) == s % 128
WIFSIGNALED(s) == (s % 128) # 0 /\ (s % 128) # 127
ExitStatus(code) == code * 256

(***************************************************************************)
(* Records.                                                                *)
(***************************************************************************)
\* a value-initialised TestCaseResult (std::vector<TestCaseResult>(n))
EmptyTestCaseResult ==
  [state_ |-> "AC", id_ |-> 0, score_ |-> 0, info_ |-> "",
   time_ms_ |-> 0, mem_byte_ |-> 0]

\* a default-constructed SandboxProgram
NewProgram(type) ==
  [type_ |-> type, child_ |-> <<>>,
   input_ |-> "", output_ |-> "", error_ |-> "",
   time_limit_ |-> NullOpt, memory_limit_ |-> NullOpt,
   state_ |-> 0, time_ms_ |-> 0, mem_byte_ |-> 0,
   normal_exit_ |-> FALSE, cgroup_oom_ |-> FALSE, exe_ |-> <<>>,
   args_ |-> <<>>]

\* A path is the sequence of its components, the text between its '/'.
\* Utils::GetFileName: the text after the last '/'
GetFileName(path) == IF path = <<>> THEN "" ELSE path[Len(path)]

\* the cgroup directory of CGroup(name), in kCgroupBase
CGroupDir(name) == "FUZOJ_" \o GetFileName(name)

\* the stage directory of Sandbox("CPP_" + id), in the working directory
StageDir(id) == "CPP_" \o id

\* CppRunner's program_name_ and CppGrader's grader_name_ for solution id
ProgramName(id) == <<".", id \o "_solution">>
GraderName(id) == <<".", id \o "_judger">>

(***************************************************************************)
(* Text of a checker's output file: a sequence of lines; the first line is *)
(* a sequence of characters, parsed as `iss >> int` parses it.             *)
(***************************************************************************)
Digits == <<"0", "1", "2", "3", "4", "5", "6", "7", "8", "9">>
IsDigit(c) == \E d \in 1..Len(Digits) : Digits[d] = c
DigitVal(c) == (CHOOSE d \in 1..Len(Digits) : Digits[d] = c) - 1

RECURSIVE SkipSpace(_)
SkipSpace(s) == IF s # <<>> /\ Head(s) = " " THEN SkipSpace(Tail(s)) ELSE s

RECURSIVE ReadDigits(_, _, _)
\* [n |-> digits read, val |-> their value]
ReadDigits(s, n, val) ==
  IF s # <<>> /\ IsDigit(Head(s))
  THEN ReadDigits(Tail(s), n + 1, val * 10 + DigitVal(Head(s)))
  ELSE [n |-> n, val |-> val]

\* operator>>(std::istream &, int &): leading blanks are skipped, an optional
\* sign, then digits; text after the digits is left unread; no digit, or a
\* value that does not fit an int, sets failbit
ParseInt(line) ==
  LET s == SkipSpace(line)
      neg == s # <<>> /\ Head(s) = "-"
      signed == s # <<>> /\ (Head(s) = "-" \/ Head(s) = "+")
      r == ReadDigits(IF signed THEN Tail(s) ELSE s, 0, 0)
      v == IF neg THEN 0 - r.val ELSE r.val
  IN  IF r.n = 0 \/ v > 2147483647 \/ v < -2147483647 - 1
      THEN [ok |-> FALSE, val |-> 0]
      ELSE [ok |-> TRUE, val |-> v]

\* the decimal text of a small integer, as the checker's `cout << k` writes it
IntToChars(k) ==
  IF k < 0 THEN <<"-", Digits[(0 - k) + 1]>> ELSE <<Digits[k + 1]>>


(***************************************************************************)
(* CppRunner::GetState: the runner's verdict for one executed run node.    *)
(***************************************************************************)
\* (SIGKILL without cgroup_oom_ returning RE at once)
GetStateMutKillReturns(sp) ==
  LET r0 == [EmptyTestCaseResult EXCEPT !.state_ = "AC",
                                        !.mem_byte_ = sp.mem_byte_,
                                        !.time_ms_ = sp.time_ms_,
                                        !.score_ = 0]
      exited == WIFEXITED(sp.state_)
      sig == WTERMSIG(sp.state_)
      signaled == ~exited /\ WIFSIGNALED(sp.state_)
  IN  IF ~sp.normal_exit_ /\ exited /\ WEXITSTATUS(sp.state_) # 0
      THEN [r0 EXCEPT !.state_ = "RE", !.info_ = "return value is not zero."]
      ELSE IF ~sp.normal_exit_ /\ signaled /\ sig = SIGSEGV
      THEN [r0 EXCEPT !.state_ = "RE", !.info_ = "segment fault."]
      ELSE IF ~sp.normal_exit_ /\ signaled /\ sig = SIGFPE
      THEN [r0 EXCEPT !.state_ = "FPE", !.info_ = "Float error."]
      ELSE IF ~sp.normal_exit_ /\ signaled /\ sig = SIGKILL /\ sp.cgroup_oom_
      THEN [r0 EXCEPT !.state_ = "MLE", !.info_ = "MLE"]
      ELSE IF ~sp.normal_exit_ /\ signaled /\ sig = SIGKILL
      THEN [r0 EXCEPT !.state_ = "RE"]
      ELSE IF sp.time_limit_ # NullOpt /\ sp.time_ms_ > sp.time_limit_
      THEN [r0 EXCEPT !.state_ = "TLE"]
      ELSE IF sp.memory_limit_ # NullOpt /\ sp.mem_byte_ > sp.memory_limit_
      THEN [r0 EXCEPT !.state_ = "MLE"]
      ELSE r0

\* (the memory limit compared before the time limit)
GetStateMutMemFirst(sp) ==
  LET r0 == [EmptyTestCaseResult EXCEPT !.state_ = "AC",
                                        !.mem_byte_ = sp.mem_byte_,
                                        !.time_ms_ = sp.time_ms_,
                                        !.score_ = 0]
      exited == WIFEXITED(sp.state_)
      sig == WTERMSIG(sp.state_)
      signaled == ~exited /\ WIFSIGNALED(sp.state_)
      r1 == IF ~sp.normal_exit_ /\ signaled /\ sig = SIGKILL
            THEN [r0 EXCEPT !.state_ = "RE"]
            ELSE r0
  IN  IF ~sp.normal_exit_ /\ exited /\ WEXITSTATUS(sp.state_) # 0
      THEN [r0 EXCEPT !.state_ = "RE", !.info_ = "return value is not zero."]
      ELSE IF ~sp.normal_exit_ /\ signaled /\ sig = SIGSEGV
      THEN [r0 EXCEPT !.state_ = "RE", !.info_ = "segment fault."]
      ELSE IF ~sp.normal_exit_ /\ signaled /\ sig = SIGFPE
      THEN [r0 EXCEPT !.state_ = "FPE", !.info_ = "Float error."]
      ELSE IF ~sp.normal_exit_ /\ signaled /\ sig = SIGKILL /\ sp.cgroup_oom_
      THEN [r0 EXCEPT !.state_ = "MLE", !.info_ = "MLE"]
      ELSE IF sp.memory_limit_ # NullOpt /\ sp.mem_byte_ > sp.memory_limit_
      THEN [r1 EXCEPT !.state_ = "MLE"]
      ELSE IF sp.time_limit_ # NullOpt /\ sp.time_ms_ > sp.time_limit_
      THEN [r1 EXCEPT !.state_ = "TLE"]
      ELSE r1

\* (SIGKILL without cgroup_oom_ read as a time limit)
GetStateMutKillIsTle(sp) ==
  LET r0 == [EmptyTestCaseResult EXCEPT !.state_ = "AC",
                                        !.mem_byte_ = sp.mem_byte_,
                                        !.time_ms_ = sp.time_ms_,
                                        !.score_ = 0]
      exited == WIFEXITED(sp.state_)
      sig == WTERMSIG(sp.state_)
      signaled == ~exited /\ WIFSIGNALED(sp.state_)
      \* the state after the `if (!sp->normal_exit_)` block, when the block
      \* did not return
      r1 == IF ~sp.normal_exit_ /\ signaled /\ sig = SIGKILL
            THEN [r0 EXCEPT !.state_ = "TLE"]
            ELSE r0
  IN  IF ~sp.normal_exit_ /\ exited /\ WEXITSTATUS(sp.state_) # 0
      THEN [r0 EXCEPT !.state_ = "RE", !.info_ = "return value is not zero."]
      ELSE IF ~sp.normal_exit_ /\ signaled /\ sig = SIGSEGV
      THEN [r0 EXCEPT !.state_ = "RE", !.info_ = "segment fault."]
      ELSE IF ~sp.normal_exit_ /\ signaled /\ sig = SIGFPE
      THEN [r0 EXCEPT !.state_ = "FPE", !.info_ = "Float error."]
      ELSE IF ~sp.normal_exit_ /\ signaled /\ sig = SIGKILL /\ sp.cgroup_oom_
      THEN [r0 EXCEPT !.state_ = "MLE", !.info_ = "MLE"]
      ELSE IF sp.time_limit_ # NullOpt /\ sp.time_ms_ > sp.time_limit_
      THEN [r1 EXCEPT !.state_ = "TLE"]
      ELSE IF sp.memory_limit_ # NullOpt /\ sp.mem_byte_ > sp.memory_limit_
      THEN [r1 EXCEPT !.state_ = "MLE"]
      ELSE r1

GetState(sp) ==
  LET r0 == [EmptyTestCaseResult EXCEPT !.state_ = "AC",
                                        !.mem_byte_ = sp.mem_byte_,
                                        !.time_ms_ = sp.time_ms_,
                                        !.score_ = 0]
      exited == WIFEXITED(sp.state_)
      sig == WTERMSIG(sp.state_)
      signaled == ~exited /\ WIFSIGNALED(sp.state_)
      \* the state after the `if (!sp->normal_exit_)` block, when the block
      \* did not return
      r1 == IF ~sp.normal_exit_ /\ signaled /\ sig = SIGKILL
            THEN [r0 EXCEPT !.state_ = "RE"]
            ELSE r0
  IN  IF ~sp.normal_exit_ /\ exited /\ WEXITSTATUS(sp.state_) # 0
      THEN [r0 EXCEPT !.state_ = "RE", !.info_ = "return value is not zero."]
      ELSE IF ~sp.normal_exit_ /\ signaled /\ sig = SIGSEGV
      THEN [r0 EXCEPT !.state_ = "RE", !.info_ = "segment fault."]
      ELSE IF ~sp.normal_exit_ /\ signaled /\ sig = SIGFPE
      THEN [r0 EXCEPT !.state_ = "FPE", !.info_ = "Float error."]
      ELSE IF ~sp.normal_exit_ /\ signaled /\ sig = SIGKILL /\ sp.cgroup_oom_
      THEN [r0 EXCEPT !.state_ = "MLE", !.info_ = "MLE"]
      ELSE IF sp.time_limit_ # NullOpt /\ sp.time_ms_ > sp.time_limit_
      THEN [r1 EXCEPT !.state_ = "TLE"]
      ELSE IF sp.memory_limit_ # NullOpt /\ sp.mem_byte_ > sp.memory_limit_
      THEN [r1 EXCEPT !.state_ = "MLE"]
      ELSE r1

(***************************************************************************)
(* CppGrader::GetScore: the grader's verdict for one checker node.  `file` *)
(* is the checker's output file in the stage, `full` the full score of the *)
(* test case (problem_->test_case_[id].score_).                            *)
(***************************************************************************)
\* (without -1 meaning the full score)
GetScoreMutNoMinusOne(sp, file, full) ==
  LET parsed == IF file.nlines >= 1 THEN ParseInt(file.line1)
                ELSE [ok |-> FALSE, val |-> 0]
      score == IF parsed.ok THEN parsed.val ELSE 0
      info == IF file.nlines >= 2 THEN file.line2 ELSE ""
      r0 == [EmptyTestCaseResult EXCEPT !.score_ = 0]
  IN  IF ~sp.normal_exit_ \/ ~file.exists
      THEN [r0 EXCEPT !.state_ = "UKN", !.info_ = "judge error"]
      ELSE IF score > full \/ score < -1
      THEN [r0 EXCEPT !.state_ = "UKN", !.info_ = "judge error", !.score_ = 0]
      ELSE IF score = full
      THEN [r0 EXCEPT !.state_ = "AC", !.score_ = full, !.info_ = info]
      ELSE [r0 EXCEPT !.state_ = "WA", !.score_ = score, !.info_ = info]

\* (without the range check)
GetScoreMutNoRange(sp, file, full) ==
  LET parsed == IF file.nlines >= 1 THEN ParseInt(file.line1)
                ELSE [ok |-> FALSE, val |-> 0]
      info == IF file.nlines >= 2 THEN file.line2 ELSE ""
  IN  IF ~sp.normal_exit_ \/ ~file.exists
      THEN [EmptyTestCaseResult EXCEPT !.state_ = "UKN", !.info_ = "judge error"]
      ELSE IF parsed.val = full \/ parsed.val = -1
      THEN [EmptyTestCaseResult EXCEPT !.state_ = "AC", !.score_ = full,
                                       !.info_ = info]
      ELSE [EmptyTestCaseResult EXCEPT !.state_ = "WA", !.score_ = parsed.val,
                                       !.info_ = info]

GetScore(sp, file, full) ==
  LET parsed == IF file.nlines >= 1 THEN ParseInt(file.line1)
                ELSE [ok |-> FALSE, val |-> 0]
      \* `if (!(iss >> score_)) score_ = 0;`
      score == IF parsed.ok THEN parsed.val ELSE 0
      info == IF file.nlines >= 2 THEN file.line2 ELSE ""
      r0 == [EmptyTestCaseResult EXCEPT !.score_ = 0]
  IN  IF ~sp.normal_exit_
      THEN [r0 EXCEPT !.state_ = "UKN", !.info_ = "judge error"]
      ELSE IF ~file.exists
      THEN [r0 EXCEPT !.state_ = "UKN", !.info_ = "judge error"]
      ELSE IF score > full \/ score < -1
      THEN [r0 EXCEPT !.state_ = "UKN", !.info_ = "judge error", !.score_ = 0]
      ELSE IF score = full \/ score = -1
      THEN [r0 EXCEPT !.state_ = "AC", !.score_ = full, !.info_ = info]
      ELSE [r0 EXCEPT !.state_ = "WA", !.score_ = score, !.info_ = info]

(***************************************************************************)
(* Judger::Converge.                                                       *)
(***************************************************************************)
\* first loop: the per-case result of case i
ConvergeCaseMutInverted(rr, gr) ==
  IF rr.state_ # "AC" THEN gr ELSE rr

ConvergeCase(rr, gr) ==
  IF rr.state_ = "AC"
  THEN [rr EXCEPT !.state_ = gr.state_, !.info_ = gr.info_, !.score_ = gr.score_]
  ELSE rr

\* the overall state after a non-AC, non-CE case of state `cs`
FoldStateMutLast(st, cs) == cs

FoldStateMutFirst(st, cs) == IF st # "AC" THEN st ELSE cs

FoldStateMutOld(st, cs) == IF st # "AC" THEN "MUL" ELSE cs

FoldState(st, cs) == IF st # "AC" /\ st # cs THEN "MUL" ELSE cs

RECURSIVE FoldMutSkip(_, _, _)
FoldMutSkip(cases, i, acc) ==
  IF i > Len(cases) THEN acc
  ELSE LET c == cases[i]
       IN  IF c.state_ # "AC" /\ c.state_ = "CE"
           THEN [acc EXCEPT !.state_ = "CE", !.info_ = c.info_]
           ELSE IF c.state_ # "AC"
           THEN FoldMutSkip(cases, i + 1,
                     [acc EXCEPT !.state_ = FoldState(acc.state_, c.state_)])
           ELSE FoldMutSkip(cases, i + 1,
                     [acc EXCEPT !.score_ = acc.score_ + c.score_])

\* second loop: acc = [state_, info_, score_] of the Result so far; a CE
\* case breaks out of the loop before its score is added
RECURSIVE Fold(_, _, _)
Fold(cases, i, acc) ==
  IF i > Len(cases) THEN acc
  ELSE LET c == cases[i]
       IN  IF c.state_ # "AC" /\ c.state_ = "CE"
           THEN [acc EXCEPT !.state_ = "CE", !.info_ = c.info_]
           ELSE Fold(cases, i + 1,
                     [state_ |-> IF c.state_ # "AC"
                                 THEN FoldState(acc.state_, c.state_)
                                 ELSE acc.state_,
                      info_ |-> acc.info_,
                      score_ |-> acc.score_ + c.score_])

Converge(runner_result, grader_result, id) ==
  LET cases == [i \in 1..Len(runner_result) |->
                  ConvergeCase(runner_result[i], grader_result[i])]
      acc == Fold(cases, 1, [state_ |-> "AC", info_ |-> "", score_ |-> 0])
  IN  [testcase_rel_ |-> cases, state_ |-> acc.state_, problem_id_ |-> "",
       id_ |-> id, score_ |-> acc.score_, info_ |-> acc.info_]

(***************************************************************************)
(* State.                                                                  *)
(***************************************************************************)
VARIABLES
  problem,        \* Problem: [test_case_ : Seq of TestCase]
  pc,             \* position of Judger::Judge
  sandbox_valid,  \* Sandbox::valid_
  programs_,      \* Sandbox::programs_, indices into nodes
  nodes,          \* the SandboxProgram objects, in creation order
  compile_sp_,    \* CppRunner::compile_sp_ (0: not set)
  output_sp,      \* Judge's output_sp: the run nodes
  grade_sp_,      \* Grader::grade_sp_: the checker nodes
  runIdx,         \* Sandbox::Run: index of the root being run
  rpPc,           \* position of Sandbox::RunProgram
  stk,            \* RunProgram's stack of <<node, next child index>>
  cur,            \* the node Excute is running (0: none)
  exPc,           \* position of the parent in Sandbox::Excute
  child,          \* the cloned child: [pc, status, seccomp (the kill filter
                  \* is loaded), chroot (its root is the stage), did (what
                  \* the exec'ed program did)]
  gate,           \* values in the start-gate pipe
  cg,             \* the node's cgroup: [exists, procs, memmax, cpu, peak, oom]
  wallOver,       \* time(nullptr) - start > kMaxProcessTime
  compile_log,    \* text of ./compile.log in the stage
  res_files,      \* the checkers' output files ./<i>.res, by path
  runner_result,  \* runner_->GetResult()
  grader_result,  \* grader_->GetResult()
  result,         \* the Result Judge returns
  started,        \* history: the nodes Excute was called for, in order
  execd,          \* history: the nodes whose child passed the gate
  reaped,         \* history: the nodes whose child waitpid reaped
  cpu_killed,     \* history: the nodes whose child the supervision loop
                  \* killed with the cgroup's CPU time above time_limit_
  dirs,           \* the directories on disk that Judge() calls created: the
                  \* stages (in the working directory) and the cgroups (in
                  \* kCgroupBase), by name
  threads,        \* the concurrent Judge() calls, by thread (SpecThreads)
  solution,       \* the Solution judged: [id_, language_]
  judger,         \* the optional Judger of the factory: [has_value, runner_, grader_, ok_],
                  \* ok_ counting the set_value calls on its promise
  ctor,           \* a CGroup::CGroup call in progress and the directory it
                  \* is about (SpecCGroup): [pc, cnt, valid_, rmdirs (the
                  \* rmdir calls that succeeded), others (the mkdir calls of
                  \* other threads), busy (the directory holds a process)]
  curr_cgroups_,  \* CGroupFactory::curr_cgroups_, the registry of names
  ret,            \* the last call of a Sandbox method by its client: the
                  \* method and the value it returned
  faults          \* the host: the files that Sandbox::AddFile cannot link
                  \* into the stage, of "source", "input" (the input of the
                  \* first test case) and "checker"

vars == <<problem, pc, sandbox_valid, programs_, nodes, compile_sp_, output_sp,
          grade_sp_, runIdx, rpPc, stk, cur, exPc, child, gate, cg, wallOver,
          compile_log, res_files, runner_result, grader_result, result,
          started, execd, reaped, cpu_killed, dirs, threads, faults,
          solution, judger, ctor, curr_cgroups_, ret>>

judgeVars == <<pc, runner_result, grader_result, result>>
graphVars == <<programs_, nodes, compile_sp_, output_sp, grade_sp_>>
runVars == <<runIdx, rpPc, stk, cur>>
exVars == <<exPc, child, gate, cg, wallOver>>
fileVars == <<compile_log, res_files>>
histVars == <<started, execd, reaped, cpu_killed>>

NumCases == Len(problem.test_case_)

\* the id of the solution judged
SolutionId == "id"

TestCase(score) ==
  [score_ |-> score, time_limit_ |-> TimeLimit, mem_limit_ |-> MemLimit]

\* a Problem with the given test cases and checker language
NewProblem(cases, lang) == [test_case_ |-> cases, checker_language_ |-> lang]

\* the Solution with the given language
NewSolution(lang) == [id_ |-> SolutionId, language_ |-> lang]

\* enum class Language
Languages == {"kCpp", "kPython", "kJava", "kGolang", "kJavaScript",
              "kCSharp", "kSQL", "kInternal"}

\* an empty std::optional<Judger>
NoJudger == [has_value |-> FALSE, runner_ |-> "null", grader_ |-> "null",
             ok_ |-> 0]

\* JudgerFactory::GetJudger: the grader by the problem's checker language,
\* the runner by the solution's language, each wired for kCpp alone and
\* else left null; the Judger is made of whatever the two are
GetJudger(p, sol) ==
  [has_value |-> TRUE,
   runner_ |-> IF sol.language_ = "kCpp" THEN "CppRunner" ELSE "null",
   grader_ |-> IF p.checker_language_ = "kCpp" THEN "CppGrader" ELSE "null",
   ok_ |-> 0]

\* the problems judged: 0..MaxCases test cases, the odd cases (counted from
\* 1) with the full score MaxScore and the even ones with the full score 0
Problems ==
  { NewProblem([i \in 1..n |-> TestCase(IF i % 2 = 1 THEN MaxScore ELSE 0)],
               "kCpp") :
      n \in 0..MaxCases }

NoChild == [pc |-> "none", status |-> 0, seccomp |-> FALSE, chroot |-> FALSE,
            did |-> "none"]
NoCGroup == [exists |-> FALSE, procs |-> FALSE, memmax |-> NullOpt,
             cpu |-> 0, peak |-> 0, oom |-> FALSE]
NoFile == [exists |-> FALSE, nlines |-> 0, line1 |-> <<>>, line2 |-> ""]
EmptyFile == [NoFile EXCEPT !.exists = TRUE]
\* the paths of the checkers' output files in the stage
ResPaths == { "./" \o ToString(id) \o ".res" : id \in 0..(MaxCases - 1) }
NoResult == [testcase_rel_ |-> <<>>, state_ |-> "AC", problem_id_ |-> "",
             id_ |-> "", score_ |-> 0, info_ |-> ""]

\* no call of a Sandbox method by its client yet
NoRet == [op |-> "none", val |-> 0]

\* no CGroup::CGroup call in progress
NoCtor == [pc |-> "none", cnt |-> 0, valid_ |-> TRUE, rmdirs |-> 0,
           others |-> 0, busy |-> FALSE]

\* the state before Judge(), but for the problem, the host and pc
InitJudgeRest ==
  /\ sandbox_valid = FALSE
  /\ programs_ = <<>>
  /\ nodes = <<>>
  /\ compile_sp_ = 0
  /\ output_sp = <<>>
  /\ grade_sp_ = <<>>
  /\ runIdx = 1
  /\ rpPc = "idle"
  /\ stk = <<>>
  /\ cur = 0
  /\ exPc = "idle"
  /\ child = NoChild
  /\ gate = 0
  /\ cg = NoCGroup
  /\ wallOver = FALSE
  /\ compile_log = ""
  /\ res_files = [f \in ResPaths |-> NoFile]
  /\ runner_result = <<>>
  /\ grader_result = <<>>
  /\ result = NoResult
  /\ started = <<>>
  /\ execd = {}
  /\ reaped = {}
  /\ cpu_killed = {}
  /\ threads = <<>>
  /\ ctor = NoCtor
  /\ curr_cgroups_ = {}
  /\ ret = NoRet

\* the state before Judge(), but for the problem and the host
InitJudge ==
  /\ pc = "start"
  /\ dirs = {}
  /\ InitJudgeRest

\* the files a Judge() stages
StagedFiles == {"source", "input", "checker"}

Init ==
  /\ problem \in Problems
  /\ solution = NewSolution("kCpp")
  /\ judger = GetJudger(problem, solution)
  /\ faults \in {{}, {"source"}}
  /\ InitJudge

(***************************************************************************)
(* Judger::Judge, up to sandbox.Run().                                     *)
(***************************************************************************)
\* Sandbox::~Sandbox, Sandbox::Destroy of a valid sandbox: the stage is
\* removed with all it holds
SandboxDestroy(ds, id) == ds \ {StageDir(id)}

\* Sandbox::Sandbox: mkdir of the stage; only a failure other than EEXIST
\* makes the sandbox invalid, and Judge then returns nullptr
JudgeStart ==
  /\ pc = "start"
  /\ \E mkdirOk \in BOOLEAN :
       /\ sandbox_valid' = mkdirOk
       /\ dirs' = IF mkdirOk THEN dirs \cup {StageDir(SolutionId)} ELSE dirs
       /\ pc' = IF mkdirOk THEN "set_runner" ELSE "null"
  /\ UNCHANGED <<problem, ret, curr_cgroups_, ctor, solution, judger, faults, threads,
                 runner_result, grader_result, result, graphVars,
                 runVars, exVars, fileVars, histVars>>

\* CppRunner::SetCompileEnv: the compile node
CompileNode(n) ==
  [NewProgram("kCompile") EXCEPT !.exe_ = <<"g++">>,
                                 !.args_ =
                                   <<"-static", "-o2",
                                     "./" \o SolutionId \o "_solution.cc",
                                     "-o",
                                     "./" \o SolutionId \o "_solution">>,
                                 !.memory_limit_ = kCompileMemLimit,
                                 !.error_ = "./compile.log",
                                 !.child_ = [i \in 1..n |-> 1 + i]]

\* CppRunner::SetRunnerEnv: the run node of case id (from 0)
RunNode(id, test_case) ==
  [NewProgram("kProgram") EXCEPT !.exe_ = ProgramName(SolutionId),
                                 !.memory_limit_ = test_case.mem_limit_,
                                 !.time_limit_ = test_case.time_limit_,
                                 !.input_ = "./" \o ToString(id) \o ".in",
                                 !.output_ = "./" \o ToString(id) \o ".out"]

\* CppGrader::SetGraderEnv: the checker node of run node sp, case id (from 0)
GraderNodeMutReadsInput(id, sp) ==
  [NewProgram("kJudger") EXCEPT !.exe_ = GraderName(SolutionId),
                                !.input_ = sp.input_,
                                !.args_ = <<ToString(id)>>,
                                !.output_ = "./" \o ToString(id) \o ".res"]

GraderNode(id, sp) ==
  [NewProgram("kJudger") EXCEPT !.exe_ = GraderName(SolutionId),
                                !.input_ = sp.output_,
                                !.args_ = <<ToString(id)>>,
                                !.output_ = "./" \o ToString(id) \o ".res"]

\* SetRunnerEnv's loop over problem_->test_case_: the run nodes pushed to
\* output_sp, the compile node being node 1
RunNodeIdsMutOneShort(n) == [i \in 1..(n - 1) |-> 1 + i]

RunNodeIds(n) == [i \in 1..n |-> 1 + i]

\* Sandbox::AddFile's result: -1 on an invalid sandbox and when link() fails
AddFile(valid, linked) == IF ~valid THEN -1 ELSE IF linked THEN 0 ELSE -1

\* unlikely(x) of an int x, that is __builtin_expect(!!(x), 0): 0 or 1
Unlikely(x) == IF x # 0 THEN 1 ELSE 0

\* CppRunner::SetRunner: stages the source and builds the compile node and
\* one run node per test case.  Only the staging of the source can fail it
\* (unlikely(AddFile(..) < 0)); the result of staging a test input is
\* compared after unlikely() has reduced it to 0 or 1
\* (unlikely(AddFile(..)) < 0), so that failure is never seen.
SetRunner ==
  /\ pc = "set_runner"
  /\ LET srcFailed == AddFile(sandbox_valid, "source" \notin faults) < 0
         inFailed == /\ NumCases > 0
                     /\ Unlikely(AddFile(sandbox_valid, "input" \notin faults)) < 0
     IN  IF ~srcFailed /\ ~inFailed
       THEN /\ nodes' = <<CompileNode(NumCases)>> \o
                        [i \in 1..NumCases |->
                           RunNode(i - 1, problem.test_case_[i])]
            /\ compile_sp_' = 1
            /\ programs_' = <<1>>
            /\ output_sp' = RunNodeIds(NumCases)
            /\ pc' = "set_grader"
            /\ UNCHANGED dirs
       ELSE /\ pc' = "null"
            /\ dirs' = SandboxDestroy(dirs, SolutionId)
            /\ UNCHANGED <<nodes, compile_sp_, programs_, output_sp>>
  /\ UNCHANGED <<problem, ret, curr_cgroups_, ctor, solution, judger, faults, threads, sandbox_valid, grade_sp_, runner_result,
                 grader_result, result, runVars, exVars, fileVars, histVars>>

\* CppGrader::SetGrader: one checker node below every run node; it cannot
\* fail (the result of staging the checker binary is dropped)
SetGrader ==
  /\ pc = "set_grader"
  /\ LET n == Len(output_sp)
         first == Len(nodes)
     IN  /\ nodes' = [k \in 1..(first + n) |->
                        IF k > first
                        THEN GraderNode(k - first - 1, nodes[output_sp[k - first]])
                        ELSE IF \E i \in 1..n : output_sp[i] = k
                        THEN [nodes[k] EXCEPT !.child_ =
                                Append(@, first + (CHOOSE i \in 1..n : output_sp[i] = k))]
                        ELSE nodes[k]]
         /\ grade_sp_' = [i \in 1..n |-> first + i]
  /\ pc' = "run"
  /\ UNCHANGED <<problem, ret, curr_cgroups_, ctor, solution, judger, faults, threads, dirs,
                 sandbox_valid, programs_, compile_sp_, output_sp,
                 runner_result, grader_result, result, runVars, exVars,
                 fileVars, histVars>>

(***************************************************************************)
(* Sandbox::Run and Sandbox::RunProgram: depth-first over the node tree.   *)
(***************************************************************************)
\* the call Excute(p)
CallExcute(p) ==
  /\ cur' = p
  /\ exPc' = "clone"
  /\ child' = NoChild
  /\ gate' = 0
  /\ cg' = NoCGroup
  /\ wallOver' = FALSE
  /\ started' = Append(started, p)

\* Run's loop over programs_, and RunProgram up to its first Excute
RunRoot ==
  /\ pc = "run" /\ rpPc = "idle" /\ exPc = "idle"
  /\ sandbox_valid
  /\ runIdx <= Len(programs_)
  /\ CallExcute(programs_[runIdx])
  /\ rpPc' = "loop"
  /\ stk' = <<>>
  /\ UNCHANGED <<problem, ret, curr_cgroups_, ctor, solution, judger, faults, threads, dirs,
                 sandbox_valid, runIdx, judgeVars, graphVars,
                 fileVars, execd, reaped, cpu_killed>>

\* whether RunProgram descends below p after Excute(p)
DescendMutNoCheck(p) == p.child_ # <<>>

Descend(p) == p.normal_exit_ /\ p.child_ # <<>>

\* the child RunProgram takes from the popped entry it = <<node, index>>:
\* it.first->child_[it.second++]
NextChildMutFromLast(it) ==
  nodes[it[1]].child_[Len(nodes[it[1]].child_) - it[2]]

NextChild(it) == nodes[it[1]].child_[it[2] + 1]

\* RunProgram after an Excute returned: push the node if its children are to
\* be run; return when the stack is empty, else pop, take the next child
\* (pushing the entry back while children remain) and call Excute on it.
\* Excute's pipe and clock do not outlive the call.
RunProgramStep ==
  /\ pc = "run" /\ rpPc = "loop" /\ exPc = "ret"
  /\ LET stk1 == IF Descend(nodes[cur]) THEN Append(stk, <<cur, 0>>) ELSE stk
     IN  IF stk1 = <<>>
         THEN /\ rpPc' = "idle"
              /\ runIdx' = runIdx + 1
              /\ cur' = 0
              /\ exPc' = "idle"
              /\ child' = NoChild
              /\ gate' = 0
              /\ wallOver' = FALSE
              /\ UNCHANGED <<stk, cg, started>>
         ELSE LET it == stk1[Len(stk1)]
                  rest == SubSeq(stk1, 1, Len(stk1) - 1)
                  p == NextChild(it)
              IN  /\ stk' = IF it[2] + 1 < Len(nodes[it[1]].child_)
                            THEN Append(rest, <<it[1], it[2] + 1>>)
                            ELSE rest
                  /\ CallExcute(p)
                  /\ UNCHANGED <<rpPc, runIdx>>
  /\ UNCHANGED <<problem, ret, curr_cgroups_, ctor, solution, judger, faults, threads, dirs,
                 sandbox_valid, judgeVars, graphVars, fileVars,
                 execd, reaped, cpu_killed>>

(***************************************************************************)
(* Sandbox::Excute, the parent.                                            *)
(***************************************************************************)
\* whether the child is a process that has not ended
Alive(c) == c.pc \in {"setup", "gate", "running", "spinning"}

\* kill(pid, SIGKILL)
Kill(c) ==
  IF Alive(c)
  THEN [c EXCEPT !.pc = "zombie", !.status = SIGKILL]
  ELSE c

\* CGroupFactory::RemoveCGroup(name_), called by CGroup::Destroy with the
\* handle's name_, the file name of the exe
RemoveCGroup(registry, exe) == registry \ {GetFileName(exe)}

\* CGroup::~CGroup, CGroup::Destroy of node sp's cgroup: rmdir, which the
\* kernel refuses (only a warning is logged) while the cgroup holds a
\* process that has not ended
CGroupDestroy(ds, sp, busy) ==
  IF busy THEN ds ELSE ds \ {CGroupDir(sp.exe_)}

\* a failure path of Excute: the child is killed and Excute returns without
\* waiting for it; the cgroup handle, if any, goes out of scope at once,
\* when the kernel may not yet have ended the killed child
KillAndReturn ==
  /\ child' = Kill(child)
  /\ cg' = NoCGroup
  /\ exPc' = "ret"
  /\ IF cg.exists
     THEN /\ \E busy \in {FALSE, cg.procs /\ Alive(child)} :
               dirs' = CGroupDestroy(dirs, nodes[cur], busy)
          /\ curr_cgroups_' = RemoveCGroup(curr_cgroups_, nodes[cur].exe_)
     ELSE UNCHANGED <<dirs, curr_cgroups_>>

\* pipe() and clone3()
ExClone ==
  /\ exPc = "clone"
  /\ \E r \in {"pipe_failed", "clone_failed", "ok"} :
       IF r = "ok"
       THEN /\ child' = [NoChild EXCEPT !.pc = "setup"]
            /\ exPc' = "cgroup"
       ELSE /\ exPc' = "ret"
            /\ UNCHANGED child
  /\ UNCHANGED <<problem, ret, curr_cgroups_, ctor, solution, judger, faults, threads, dirs,
                 sandbox_valid, judgeVars, graphVars, runVars, gate,
                 cg, wallOver, fileVars, histVars>>

\* CGroupFactory::GetCGroup(program->exe_)
ExGetCGroup ==
  /\ exPc = "cgroup"
  /\ \E created \in BOOLEAN :
       IF created
       THEN /\ cg' = [NoCGroup EXCEPT !.exists = TRUE]
            /\ dirs' = dirs \cup {CGroupDir(nodes[cur].exe_)}
            /\ exPc' = "addproc"
            /\ UNCHANGED <<child, curr_cgroups_>>
       ELSE KillAndReturn
  /\ UNCHANGED <<problem, ret, ctor, solution, judger, faults, threads,
                 sandbox_valid, judgeVars, graphVars, runVars, gate,
                 wallOver, fileVars, histVars>>

\* CGroup::AddProcess's result: -1 only when cgroup.procs cannot be opened.
\* The pid goes to the stream's buffer and reaches the kernel when the
\* stream is closed by its destructor, whose failure is not seen.
AddProcess(opened) == IF opened THEN 0 ELSE -1

\* cgroup->AddProcess(pid)
ExAddProcess ==
  /\ exPc = "addproc"
  /\ \E opened \in BOOLEAN, written \in BOOLEAN :
       IF AddProcess(opened) # 0
       THEN KillAndReturn
       ELSE /\ cg' = [cg EXCEPT !.procs = opened /\ written]
            /\ exPc' = IF nodes[cur].memory_limit_ # NullOpt
                       THEN "memlimit" ELSE "gate"
            /\ UNCHANGED <<child, dirs, curr_cgroups_>>
  /\ UNCHANGED <<problem, ret, ctor, solution, judger, faults, threads,
                 sandbox_valid, judgeVars, graphVars, runVars, gate,
                 wallOver, fileVars, histVars>>

\* CGroup::SetMemLimit's result, as AddProcess's
SetMemLimit(opened) == IF opened THEN 0 ELSE -1

\* cgroup->SetMemLimit(*program->memory_limit_)
ExSetMemLimit ==
  /\ exPc = "memlimit"
  /\ \E opened \in BOOLEAN, written \in BOOLEAN :
       IF SetMemLimit(opened) # 0
       THEN KillAndReturn
       ELSE /\ cg' = [cg EXCEPT !.memmax = IF opened /\ written
                                           THEN nodes[cur].memory_limit_
                                           ELSE @]
            /\ exPc' = "gate"
            /\ UNCHANGED <<child, dirs, curr_cgroups_>>
  /\ UNCHANGED <<problem, ret, ctor, solution, judger, faults, threads,
                 sandbox_valid, judgeVars, graphVars, runVars, gate,
                 wallOver, fileVars, histVars>>

\* write(pipes[1], &pipe_val, sizeof(pipe_val))
ExWriteGate ==
  /\ exPc = "gate"
  /\ \E wrote \in BOOLEAN :
       IF wrote
       THEN /\ gate' = gate + 1
            /\ exPc' = "wait"
            /\ UNCHANGED <<child, cg, dirs, curr_cgroups_>>
       ELSE /\ KillAndReturn
            /\ UNCHANGED gate
  /\ UNCHANGED <<problem, ret, ctor, solution, judger, faults, threads, sandbox_valid, judgeVars, graphVars, runVars,
                 wallOver, fileVars, histVars>>

\* CGroup::GetRunTimems and CGroup::GetRunMem of the node's cgroup
GetRunTimems(c) == c.cpu
GetRunMem(c) == c.peak

\* the node after Excute recorded the reaped child's wait status and the
\* cgroup's CPU time and peak memory in it
RecordOutcomeMutClearsLimit(sp, status, c) ==
  [sp EXCEPT !.state_ = status,
             !.normal_exit_ = IF WIFEXITED(status)
                              THEN WEXITSTATUS(status) = 0
                              ELSE @,
             !.time_ms_ = GetRunTimems(c),
             !.mem_byte_ = GetRunMem(c),
             !.time_limit_ = NullOpt]

RecordOutcome(sp, status, c) ==
  [sp EXCEPT !.state_ = status,
             !.normal_exit_ = IF WIFEXITED(status)
                              THEN WEXITSTATUS(status) = 0
                              ELSE @,
             !.time_ms_ = GetRunTimems(c),
             !.mem_byte_ = GetRunMem(c)]

\* the supervision loop, waitpid(pid, &state, WNOHANG) > 0: the child is
\* reaped and the node records the outcome (cgroup_oom_ is not assigned);
\* the cgroup handle goes out of scope when Excute returns, the cgroup
\* then holding no process
ExReap ==
  /\ exPc = "wait"
  /\ child.pc = "zombie"
  /\ nodes' = [nodes EXCEPT ![cur] = RecordOutcome(@, child.status, cg)]
  /\ child' = [child EXCEPT !.pc = "reaped"]
  /\ cg' = NoCGroup
  /\ dirs' = CGroupDestroy(dirs, nodes[cur], FALSE)
  /\ curr_cgroups_' = RemoveCGroup(curr_cgroups_, nodes[cur].exe_)
  /\ exPc' = "ret"
  /\ reaped' = reaped \cup {cur}
  /\ UNCHANGED <<problem, ret, ctor, solution, judger, faults, threads,
                 sandbox_valid, judgeVars, programs_, compile_sp_,
                 output_sp, grade_sp_, runVars, gate, wallOver, fileVars,
                 started, execd, cpu_killed>>

\* the supervision loop's condition for kill(pid, SIGKILL), t being what
\* cgroup->GetRunTimems() returned and wall whether more than
\* kMaxProcessTime seconds have passed since the gate was written
SupervisorKillsMutNoOptional(sp, t, wall) == t > sp.time_limit_ \/ wall

SupervisorKills(sp, t, wall) ==
  (sp.time_limit_ # NullOpt /\ t > sp.time_limit_) \/ wall

\* the supervision loop, the child not yet reapable: it is killed when the
\* cgroup's CPU time exceeds the node's time limit or the wall clock
\* exceeds kMaxProcessTime (otherwise the loop sleeps and polls again);
\* GetRunTimems returns -1 when cpu.stat cannot be read
ExKill ==
  /\ exPc = "wait"
  /\ child.pc # "zombie"
  /\ \E t \in {GetRunTimems(cg), -1} :
       /\ SupervisorKills(nodes[cur], t, wallOver)
       /\ cpu_killed' = IF SupervisorKills(nodes[cur], t, FALSE)
                        THEN cpu_killed \cup {cur}
                        ELSE cpu_killed
  /\ child' = Kill(child)
  /\ UNCHANGED <<problem, ret, curr_cgroups_, ctor, solution, judger, faults, threads, dirs,
                 sandbox_valid, judgeVars, graphVars, runVars, exPc,
                 gate, cg, wallOver, fileVars, started, execd, reaped>>

(***************************************************************************)
(* Sandbox::Excute, the child, and the program it execs.                   *)
(***************************************************************************)
\* SetSandbox: chdir, then for a node that is not a compile node chroot,
\* the stdio files (created and truncated), and for a node that is not a
\* compile node the seccomp filter; any failure is exit(1)
ChildSetup ==
  /\ child.pc = "setup"
  /\ \E ok \in BOOLEAN :
       IF ok
       THEN /\ child' = [child EXCEPT
                          !.pc = "gate",
                          !.chroot = nodes[cur].type_ # "kCompile",
                          !.seccomp = nodes[cur].type_ # "kCompile"]
            /\ compile_log' = IF nodes[cur].error_ = "./compile.log"
                              THEN "" ELSE compile_log
            /\ res_files' = IF nodes[cur].output_ \in ResPaths
                            THEN [res_files EXCEPT ![nodes[cur].output_] = EmptyFile]
                            ELSE res_files
       ELSE /\ child' = [child EXCEPT !.pc = "zombie",
                                      !.status = ExitStatus(1)]
            /\ UNCHANGED fileVars
  /\ UNCHANGED <<problem, ret, curr_cgroups_, ctor, solution, judger, faults, threads, dirs,
                 sandbox_valid, judgeVars, graphVars, runVars, exPc,
                 gate, cg, wallOver, histVars>>

\* read(pipes[0], &pipe_val, sizeof(pipe_val)) blocks until the parent has
\* written the gate value
ChildPassesGate(g) == g > 0

\* the gate is read and the program is exec'ed; a failed exec is exit(1),
\* as is the exec of a checker binary that is not in the stage
ChildExec ==
  /\ child.pc = "gate"
  /\ ChildPassesGate(gate)
  /\ gate' = IF gate > 0 THEN gate - 1 ELSE gate
  /\ \E ok \in IF nodes[cur].type_ = "kJudger" /\ "checker" \in faults
               THEN {FALSE} ELSE BOOLEAN :
       IF ok
       THEN /\ child' = [child EXCEPT !.pc = "running"]
            /\ execd' = execd \cup {cur}
       ELSE /\ child' = [child EXCEPT !.pc = "zombie",
                                      !.status = ExitStatus(1)]
            /\ UNCHANGED execd
  /\ UNCHANGED <<problem, ret, curr_cgroups_, ctor, solution, judger, faults, threads, dirs,
                 sandbox_valid, judgeVars, graphVars, runVars, exPc,
                 cg, wallOver, fileVars, started, reaped, cpu_killed>>

\* What an exec'ed program may do.  kind "exit": it terminates with wait
\* status `status`, having used `cpu` ms and `peak` bytes (`oom`: the
\* kernel's OOM killer ended it), leaving `log` on stderr and `file` on
\* stdout; kind "spin": it burns CPU and never terminates by itself; kind
\* "hang": it blocks and never terminates by itself; kind "syscall": its
\* only thread invokes a syscall of kKilledProgramSyscalls and then exits
\* with `status`; kind "syscall_thread": a second thread, created with
\* clone3 (which is not in the list), invokes such a syscall while the
\* first thread goes on and exits with `status`.
Outcome(kind, status, cpu, peak, oom, log, file) ==
  [kind |-> kind, status |-> status, cpu |-> cpu, peak |-> peak,
   oom |-> oom, log |-> log, file |-> file]

Exits(status, cpu, peak) ==
  Outcome("exit", status, cpu, peak, FALSE, "", EmptyFile)

\* the wait status of a terminated program.  The filter's action is
\* SCMP_ACT_KILL, which ends the calling thread as by SIGSYS: the process
\* ends with it when the thread is its only one, and goes on otherwise.
OutcomeStatus(o, c) ==
  IF o.kind = "syscall" /\ c.seccomp THEN SIGSYS ELSE o.status

\* g++: success (g++ forks its passes: fork and clone are in the list), or
\* an error with diagnostics, or no end
CompileOutcomes ==
  { Outcome("syscall", 0, 0, 0, FALSE, "", EmptyFile),
    Outcome("exit", ExitStatus(1), 0, 0, FALSE, "error: expected ';'", EmptyFile),
    Outcome("hang", 0, 0, 0, FALSE, "", EmptyFile) }

\* the submission on one test case with limits tl, ml
RunOutcomes(tl, ml) ==
  { Exits(0, tl, ml),
    Exits(0, tl + 1, 0),
    Exits(ExitStatus(1), 0, 0),
    Exits(SIGSEGV, 0, 0),
    Exits(SIGFPE, 0, 0),
    Outcome("syscall", 0, 0, 0, FALSE, "", EmptyFile),
    Outcome("syscall_thread", 0, tl, ml, FALSE, "", EmptyFile),
    Outcome("exit", SIGKILL, 0, ml, TRUE, "", EmptyFile),
    Outcome("exit", SIGKILL, 0, ml + 1, TRUE, "", EmptyFile),
    Outcome("spin", 0, tl + 1, 0, FALSE, "", EmptyFile),
    Outcome("hang", 0, 0, 0, FALSE, "", EmptyFile) }

\* the texts a checker may leave in its output file
TextFile(n, first, second) ==
  [exists |-> TRUE, nlines |-> n, line1 |-> first, line2 |-> second]

CheckerScores == {-2, -1, 0, MaxScore - 1, MaxScore, MaxScore + 1}

CheckerFiles ==
  { EmptyFile, TextFile(1, <<"x">>, "") }
  \cup { TextFile(2, IntToChars(k), IF k = -1 THEN "OK" ELSE "Fall in line:0")
         : k \in CheckerScores }

\* the checker: exits 0 having written some text, fails, or does not end
CheckerOutcomes ==
  { Outcome("exit", 0, 0, 0, FALSE, "", f) : f \in CheckerFiles }
  \cup { Exits(ExitStatus(1), 0, 0),
         Outcome("syscall", 0, 0, 0, FALSE, "", EmptyFile),
         Outcome("hang", 0, 0, 0, FALSE, "", EmptyFile) }

Outcomes(sp) ==
  IF sp.type_ = "kCompile" THEN CompileOutcomes
  ELSE IF sp.type_ = "kJudger" THEN CheckerOutcomes
  ELSE RunOutcomes(sp.time_limit_, sp.memory_limit_)

\* the exec'ed program runs.  The cgroup accounts it only if its pid was
\* added; the kernel's OOM killer acts only on a cgroup with memory.max set.
ChildRun ==
  /\ child.pc = "running"
  /\ \E o \in Outcomes(nodes[cur]) :
       /\ o.oom => (cg.procs /\ cg.memmax # NullOpt)
       /\ IF o.kind \in {"exit", "syscall", "syscall_thread"}
          THEN /\ child' = [child EXCEPT !.pc = "zombie",
                                         !.status = OutcomeStatus(o, child),
                                         !.did = o.kind]
               /\ cg' = IF cg.procs
                        THEN [cg EXCEPT !.cpu = o.cpu, !.peak = o.peak,
                                        !.oom = o.oom]
                        ELSE cg
               /\ compile_log' = IF nodes[cur].error_ = "./compile.log"
                                 THEN o.log ELSE compile_log
               /\ res_files' = IF nodes[cur].output_ \in ResPaths
                               THEN [res_files EXCEPT ![nodes[cur].output_] = o.file]
                               ELSE res_files
               /\ UNCHANGED wallOver
          ELSE /\ child' = [child EXCEPT !.pc = "spinning"]
               /\ cg' = IF cg.procs /\ o.kind = "spin"
                        THEN [cg EXCEPT !.cpu = o.cpu]
                        ELSE cg
               /\ wallOver' = ~(o.kind = "spin" /\ cg.procs)
               /\ UNCHANGED fileVars
  /\ UNCHANGED <<problem, ret, curr_cgroups_, ctor, solution, judger, faults, threads, dirs,
                 sandbox_valid, judgeVars, graphVars, runVars, exPc,
                 gate, histVars>>

(***************************************************************************)
(* Judger::Judge after sandbox.Run().                                      *)
(***************************************************************************)
\* CppRunner::GetResult, the compile node having failed
CompileErrorResultMutFirstOnly(n, log) ==
  [i \in 1..n |->
     IF i = 1
     THEN [EmptyTestCaseResult EXCEPT !.state_ = "CE", !.info_ = log]
     ELSE EmptyTestCaseResult]

CompileErrorResult(n, log) ==
  [i \in 1..n |->
     [EmptyTestCaseResult EXCEPT !.state_ = "CE", !.score_ = 0,
                                 !.info_ = IF i = 1 THEN log ELSE ""]]

\* CppRunner::GetResult
RunnerGetResult ==
  IF ~nodes[compile_sp_].normal_exit_
  THEN CompileErrorResult(Len(output_sp), compile_log)
  ELSE [i \in 1..Len(output_sp) |-> GetState(nodes[output_sp[i]])]

\* CppGrader::GetResult
GraderGetResult ==
  [i \in 1..Len(grade_sp_) |->
     GetScore(nodes[grade_sp_[i]], res_files[nodes[grade_sp_[i]].output_],
              problem.test_case_[i].score_)]

\* runner_->GetResult(), grader_->GetResult(), Converge, ok_.set_value(true),
\* return.  With no
\* test case and a failed compile, GetResult writes rls[0] of an empty
\* vector: the process dies there.
Collect ==
  /\ pc = "run" /\ rpPc = "idle" /\ exPc = "idle"
  /\ runIdx > Len(programs_)
  /\ IF ~nodes[compile_sp_].normal_exit_ /\ Len(output_sp) = 0
     THEN /\ pc' = "crashed"
          /\ UNCHANGED <<runner_result, grader_result, result, dirs, judger>>
     ELSE /\ runner_result' = RunnerGetResult
          /\ grader_result' = GraderGetResult
          /\ result' = Converge(RunnerGetResult, GraderGetResult, SolutionId)
          /\ dirs' = SandboxDestroy(dirs, SolutionId)
          /\ judger' = [judger EXCEPT !.ok_ = @ + 1]
          /\ pc' = "done"
  /\ UNCHANGED <<problem, ret, curr_cgroups_, ctor, solution, faults, threads, sandbox_valid, graphVars,
                 runVars, exVars, fileVars, histVars>>

Next ==
  \/ JudgeStart
  \/ SetRunner
  \/ SetGrader
  \/ RunRoot
  \/ RunProgramStep
  \/ ExClone
  \/ ExGetCGroup
  \/ ExAddProcess
  \/ ExSetMemLimit
  \/ ExWriteGate
  \/ ExReap
  \/ ExKill
  \/ ChildSetup
  \/ ChildExec
  \/ ChildRun
  \/ Collect

Spec == Init /\ [][Next]_vars

\* the steps of the thread that runs Judge(), and of the child it cloned
ParentStep ==
  \/ JudgeStart \/ SetRunner \/ SetGrader \/ RunRoot \/ RunProgramStep
  \/ ExClone \/ ExGetCGroup \/ ExAddProcess \/ ExSetMemLimit \/ ExWriteGate
  \/ ExReap \/ ExKill \/ Collect

ChildStep == ChildSetup \/ ChildExec \/ ChildRun

\* the kernel schedules both: neither the thread nor the child process
\* stays runnable forever without taking its step
SpecFair == Spec /\ WF_vars(ParentStep) /\ WF_vars(ChildStep)

\* Judge() of a problem with one test case on every host, as to which of
\* the staged files cannot be linked into the stage and whether the stage
\* directory is on disk before the call (left by a run that crashed, or
\* made by another Sandbox on the same path)
StageProblem == NewProblem(<<TestCase(MaxScore)>>, "kCpp")

StageInit ==
  /\ problem = StageProblem
  /\ solution = NewSolution("kCpp")
  /\ judger = GetJudger(problem, solution)
  /\ faults \in SUBSET StagedFiles
  /\ pc = "start"
  /\ dirs \in {{}, {StageDir(SolutionId)}}
  /\ InitJudgeRest

SpecStage == StageInit /\ [][Next]_vars

(***************************************************************************)
(* The verdict functions on arbitrary executed nodes: Judge() from         *)
(* runner_->GetResult() on, for one test case, with the run node and the   *)
(* checker node in any state an Excute (of any revision) can leave them    *)
(* in, cgroup_oom_ included, and any checker output file.                  *)
(***************************************************************************)
\* wait statuses of a node: never waited for or exit 0, exit 1, and the
\* terminating signals
VStatuses == {0, ExitStatus(1), SIGSEGV, SIGFPE, SIGKILL, SIGSYS}

\* normal_exit_ is set only from a status with WIFEXITED and exit code 0
VNormalExits(st) == IF st = 0 THEN BOOLEAN ELSE {FALSE}

\* the run node of test case 0 after Sandbox::Run
VRunNodes ==
  { [RunNode(0, TestCase(0)) EXCEPT !.child_ = <<2>>,
                                    !.time_limit_ = tl,
                                    !.memory_limit_ = ml,
                                    !.state_ = st,
                                    !.normal_exit_ = ne,
                                    !.cgroup_oom_ = oom,
                                    !.time_ms_ = t,
                                    !.mem_byte_ = m] :
      tl \in {NullOpt, TimeLimit}, ml \in {NullOpt, MemLimit},
      st \in VStatuses, ne \in BOOLEAN, oom \in BOOLEAN,
      t \in {0, TimeLimit, TimeLimit + 1},
      m \in {0, MemLimit, MemLimit + 1} }

\* the checker node of test case 0 after Sandbox::Run
VGraderNodes(sp) ==
  { [GraderNode(0, sp) EXCEPT !.state_ = st, !.normal_exit_ = ne] :
      st \in {0, ExitStatus(1)}, ne \in BOOLEAN }

VInit ==
  /\ problem \in { NewProblem(<<TestCase(s)>>, "kCpp") : s \in {0, MaxScore} }
  /\ pc = "v_runner"
  /\ sandbox_valid = TRUE
  /\ programs_ = <<>>
  /\ nodes \in { <<sp, gp>> :
                   sp \in { n \in VRunNodes :
                              n.normal_exit_ \in VNormalExits(n.state_) },
                   gp \in { n \in VGraderNodes(RunNode(0, TestCase(0))) :
                              n.normal_exit_ \in VNormalExits(n.state_) } }
  /\ compile_sp_ = 0
  /\ output_sp = <<1>>
  /\ grade_sp_ = <<2>>
  /\ runIdx = 1
  /\ rpPc = "idle"
  /\ stk = <<>>
  /\ cur = 0
  /\ exPc = "idle"
  /\ child = NoChild
  /\ gate = 0
  /\ cg = NoCGroup
  /\ wallOver = FALSE
  /\ compile_log = ""
  /\ res_files \in { [f \in ResPaths |-> IF f = "./0.res" THEN file ELSE NoFile] :
                       file \in CheckerFiles \cup {NoFile} }
  /\ runner_result = <<>>
  /\ grader_result = <<>>
  /\ result = NoResult
  /\ started = <<>>
  /\ execd = {}
  /\ reaped = {}
  /\ cpu_killed = {}
  /\ dirs = {}
  /\ threads = <<>>
  /\ ctor = NoCtor
  /\ curr_cgroups_ = {}
  /\ ret = NoRet
  /\ faults = {}
  /\ solution = NewSolution("kCpp")
  /\ judger = GetJudger(problem, solution)

\* auto runner_result = runner_->GetResult(), the compile node having
\* finished with normal_exit_
VRunnerGetResult ==
  /\ pc = "v_runner"
  /\ runner_result' = [i \in 1..Len(output_sp) |-> GetState(nodes[output_sp[i]])]
  /\ pc' = "v_grader"
  /\ UNCHANGED <<problem, ret, curr_cgroups_, ctor, solution, judger, faults, threads, dirs,
                 sandbox_valid, graphVars, runVars, exVars, fileVars,
                 histVars, grader_result, result>>

\* auto grader_result = grader_->GetResult()
VGraderGetResult ==
  /\ pc = "v_grader"
  /\ grader_result' = GraderGetResult
  /\ pc' = "v_converge"
  /\ UNCHANGED <<problem, ret, curr_cgroups_, ctor, solution, judger, faults, threads, dirs,
                 sandbox_valid, graphVars, runVars, exVars, fileVars,
                 histVars, runner_result, result>>

\* auto result = Converge(runner_result, grader_result); return result
VConverge ==
  /\ pc = "v_converge"
  /\ result' = Converge(runner_result, grader_result, SolutionId)
  /\ pc' = "v_done"
  /\ UNCHANGED <<problem, ret, curr_cgroups_, ctor, solution, judger, faults, threads, dirs,
                 sandbox_valid, graphVars, runVars, exVars, fileVars,
                 histVars, runner_result, grader_result>>

VNext ==
  \/ VRunnerGetResult
  \/ VGraderGetResult
  \/ VConverge

SpecVerdict == VInit /\ [][VNext]_vars

(***************************************************************************)
(* Concurrent Judge() calls: NThreads threads of one process, each judging *)
(* its own solution (ids "1", "2", ...) of one accepted submission, on a   *)
(* host where every file operation succeeds unless another run interferes. *)
(* The runs share the working directory and kCgroupBase.  The mkdir/rmdir  *)
(* retry loop of CGroup::CGroup is taken as one step.                      *)
(***************************************************************************)
ThreadIds == 1..NThreads
ThreadSolutionId(t) == ToString(t)

\* the problem judged: one test case
ThreadProblem == NewProblem(<<TestCase(MaxScore)>>, "kCpp")

\* the node tree that SetRunner and SetGrader build for solution id:
\* compile node, run node of case 0, checker node of case 0
ThreadNodes(id) ==
  LET tc == ThreadProblem.test_case_[1]
  IN  << CompileNode(1),
         [RunNode(0, tc) EXCEPT !.exe_ = ProgramName(id), !.child_ = <<3>>],
         [GraderNode(0, RunNode(0, tc)) EXCEPT !.exe_ = GraderName(id)] >>

\* a thread before Judge(): child is the state of the cloned child of the
\* node in execution, incg the cgroup directory its pid was written to,
\* res_file the checker's output file in the thread's stage
NewThread ==
  [pc |-> "start", nodes |-> <<>>, cur |-> 0, exPc |-> "idle",
   child |-> "none", incg |-> "", res_file |-> NoFile, result |-> NoResult]

\* the cgroup directory of the node thread t executes
ThreadCGroup(t) == CGroupDir(threads[t].nodes[threads[t].cur].exe_)

\* whether the cgroup named holds a process, of a thread other than t,
\* that has not ended
Populated(name, t) ==
  \E u \in ThreadIds \ {t} :
    threads[u].child \in {"gate", "running"} /\ threads[u].incg = name

\* the single-run variables, not used by the threads
seqVars == <<problem, ret, ctor, solution, judger, faults, pc, sandbox_valid, programs_, nodes, compile_sp_,
             output_sp, grade_sp_, runIdx, rpPc, stk, cur, exPc, child, gate,
             cg, wallOver, compile_log, res_files, runner_result,
             grader_result, result, started, execd, reaped, cpu_killed>>

TInit ==
  /\ problem = ThreadProblem
  /\ pc = "threads"
  /\ sandbox_valid = FALSE
  /\ programs_ = <<>>
  /\ nodes = <<>>
  /\ compile_sp_ = 0
  /\ output_sp = <<>>
  /\ grade_sp_ = <<>>
  /\ runIdx = 1
  /\ rpPc = "idle"
  /\ stk = <<>>
  /\ cur = 0
  /\ exPc = "idle"
  /\ child = NoChild
  /\ gate = 0
  /\ cg = NoCGroup
  /\ wallOver = FALSE
  /\ compile_log = ""
  /\ res_files = [f \in ResPaths |-> NoFile]
  /\ runner_result = <<>>
  /\ grader_result = <<>>
  /\ result = NoResult
  /\ started = <<>>
  /\ execd = {}
  /\ reaped = {}
  /\ cpu_killed = {}
  /\ dirs = {}
  /\ threads = [t \in ThreadIds |-> NewThread]
  /\ ctor = NoCtor
  /\ curr_cgroups_ = {}
  /\ ret = NoRet
  /\ faults = {}
  /\ solution = NewSolution("kCpp")
  /\ judger = GetJudger(problem, solution)

\* Judge() up to sandbox.Run(): the stage is made, SetRunner and SetGrader
\* build the nodes, Run calls Excute for the compile node
TJudgeStart(t) ==
  /\ threads[t].pc = "start"
  /\ dirs' = dirs \cup {StageDir(ThreadSolutionId(t))}
  /\ threads' = [threads EXCEPT ![t] =
                   [@ EXCEPT !.pc = "run",
                             !.nodes = ThreadNodes(ThreadSolutionId(t)),
                             !.cur = 1,
                             !.exPc = "clone"]]
  /\ UNCHANGED <<curr_cgroups_, seqVars>>

\* Excute: pipe() and clone3(); the child sets its sandbox up and waits at
\* the start gate
TClone(t) ==
  /\ threads[t].exPc = "clone"
  /\ threads' = [threads EXCEPT ![t] =
                   [@ EXCEPT !.child = "gate", !.incg = "", !.exPc = "cgroup"]]
  /\ UNCHANGED <<dirs, curr_cgroups_, seqVars>>

\* Excute's failure paths: kill(pid, SIGKILL) and return
TKillAndReturn(th) == [th EXCEPT !.child = "killed", !.exPc = "ret"]

\* CGroupFactory::GetCGroup(program->exe_), CGroup::CGroup: mkdir; when the
\* directory exists, rmdir and mkdir again; rmdir fails on a cgroup that
\* holds a process, the cgroup is then not valid and GetCGroup is nullopt
TGetCGroup(t) ==
  /\ threads[t].exPc = "cgroup"
  /\ IF ThreadCGroup(t) \in dirs /\ Populated(ThreadCGroup(t), t)
     THEN /\ threads' = [threads EXCEPT ![t] = TKillAndReturn(@)]
          /\ UNCHANGED dirs
     ELSE /\ dirs' = dirs \cup {ThreadCGroup(t)}
          /\ threads' = [threads EXCEPT ![t] = [@ EXCEPT !.exPc = "addproc"]]
  /\ UNCHANGED <<curr_cgroups_, seqVars>>

\* cgroup->AddProcess(pid): the pid is written to cgroup.procs of the
\* directory of that name, if there is one
TAddProcess(t) ==
  /\ threads[t].exPc = "addproc"
  /\ IF AddProcess(ThreadCGroup(t) \in dirs) # 0
     THEN threads' = [threads EXCEPT ![t] = TKillAndReturn(@)]
     ELSE threads' = [threads EXCEPT ![t] =
                        [@ EXCEPT !.incg = ThreadCGroup(t),
                                  !.exPc =
                                     IF threads[t].nodes[threads[t].cur]
                                          .memory_limit_ # NullOpt
                                     THEN "memlimit" ELSE "gate"]]
  /\ UNCHANGED <<dirs, curr_cgroups_, seqVars>>

\* cgroup->SetMemLimit(*program->memory_limit_); on its failure the cgroup
\* is destroyed with the killed child in it
TSetMemLimit(t) ==
  /\ threads[t].exPc = "memlimit"
  /\ IF SetMemLimit(ThreadCGroup(t) \in dirs) # 0
     THEN threads' = [threads EXCEPT ![t] = TKillAndReturn(@)]
     ELSE threads' = [threads EXCEPT ![t] = [@ EXCEPT !.exPc = "gate"]]
  /\ UNCHANGED <<dirs, curr_cgroups_, seqVars>>

\* the write to the start gate: the child goes on to execve
TWriteGate(t) ==
  /\ threads[t].exPc = "gate"
  /\ threads' = [threads EXCEPT ![t] =
                   [@ EXCEPT !.child = "running", !.exPc = "wait"]]
  /\ UNCHANGED <<dirs, curr_cgroups_, seqVars>>

\* the exec'ed program of the accepted submission runs and exits with 0:
\* g++ compiles, the solution answers within its limits, the checker
\* writes -1 and OK
TChildRun(t) ==
  /\ threads[t].child = "running"
  /\ threads' = [threads EXCEPT ![t] =
                   [@ EXCEPT !.child = "zombie",
                             !.res_file =
                                IF threads[t].nodes[threads[t].cur].type_ = "kJudger"
                                THEN TextFile(2, IntToChars(-1), "OK")
                                ELSE @]]
  /\ UNCHANGED <<dirs, curr_cgroups_, seqVars>>

\* the supervision loop reaps the child and the node records the outcome;
\* the cgroup is destroyed when Excute returns: rmdir, refused while the
\* cgroup holds a process
TReap(t) ==
  /\ threads[t].exPc = "wait"
  /\ threads[t].child = "zombie"
  /\ threads' = [threads EXCEPT ![t] =
                   [@ EXCEPT !.child = "reaped",
                             !.exPc = "ret",
                             !.nodes[threads[t].cur] =
                                [@ EXCEPT !.state_ = ExitStatus(0),
                                          !.normal_exit_ = TRUE,
                                          !.time_ms_ = 0,
                                          !.mem_byte_ = 0]]]
  /\ dirs' = CGroupDestroy(dirs, threads[t].nodes[threads[t].cur],
                           Populated(ThreadCGroup(t), t))
  /\ curr_cgroups_' = RemoveCGroup(curr_cgroups_,
                                   threads[t].nodes[threads[t].cur].exe_)
  /\ UNCHANGED seqVars

\* RunProgram after Excute returned: the node's one child is executed if
\* the node exited normally, else Run returns
TRunProgramStep(t) ==
  /\ threads[t].exPc = "ret"
  /\ threads' = [threads EXCEPT ![t] =
                   IF Descend(@.nodes[@.cur])
                   THEN [@ EXCEPT !.cur = @ + 1, !.exPc = "clone"]
                   ELSE [@ EXCEPT !.exPc = "idle", !.pc = "collect"]]
  /\ UNCHANGED <<dirs, curr_cgroups_, seqVars>>

\* runner_->GetResult(), grader_->GetResult(), Converge, and the return of
\* Judge(), where the sandbox is destroyed
TCollect(t) ==
  /\ threads[t].pc = "collect"
  /\ LET th == threads[t]
         rr == IF ~th.nodes[1].normal_exit_
               THEN CompileErrorResult(1, "")
               ELSE <<GetState(th.nodes[2])>>
         gr == <<GetScore(th.nodes[3], th.res_file,
                          ThreadProblem.test_case_[1].score_)>>
     IN  threads' = [threads EXCEPT ![t] =
                       [@ EXCEPT !.result = Converge(rr, gr, ThreadSolutionId(t)),
                                 !.pc = "done"]]
  /\ dirs' = SandboxDestroy(dirs, ThreadSolutionId(t))
  /\ UNCHANGED <<curr_cgroups_, seqVars>>

TNext ==
  \E t \in ThreadIds :
    \/ TJudgeStart(t)
    \/ TClone(t)
    \/ TGetCGroup(t)
    \/ TAddProcess(t)
    \/ TSetMemLimit(t)
    \/ TWriteGate(t)
    \/ TChildRun(t)
    \/ TReap(t)
    \/ TRunProgramStep(t)
    \/ TCollect(t)

SpecThreads == TInit /\ [][TNext]_vars

(***************************************************************************)
(* JudgerFactory::GetJudger on every pair of languages.                    *)
(***************************************************************************)
FInit ==
  /\ \E cl \in Languages : problem = NewProblem(<<>>, cl)
  /\ \E l \in Languages : solution = NewSolution(l)
  /\ judger = NoJudger
  /\ faults = {}
  /\ pc = "factory"
  /\ dirs = {}
  /\ InitJudgeRest

\* judger_factory.GetJudger(problem, solution)
FGetJudger ==
  /\ pc = "factory"
  /\ judger' = GetJudger(problem, solution)
  /\ pc' = "made"
  /\ UNCHANGED <<problem, ret, curr_cgroups_, ctor, solution, faults, threads, dirs, sandbox_valid,
                 runner_result, grader_result, result, graphVars, runVars,
                 exVars, fileVars, histVars>>

FNext == FGetJudger

SpecFactory == FInit /\ [][FNext]_vars

(***************************************************************************)
(* CGroup::CGroup(name) of one thread, step by step, while other threads   *)
(* make the directory of the same name (at most MaxOthers times), put a    *)
(* process into it, and remove it.                                         *)
(***************************************************************************)
\* the directory the constructor is about: that of a compile node
CtorDir == CGroupDir(<<"g++">>)

CInit ==
  /\ problem = NewProblem(<<>>, "kCpp")
  /\ solution = NewSolution("kCpp")
  /\ judger = GetJudger(problem, solution)
  /\ faults = {}
  /\ pc = "cgroup_ctor"
  /\ sandbox_valid = FALSE
  /\ programs_ = <<>>
  /\ nodes = <<>>
  /\ compile_sp_ = 0
  /\ output_sp = <<>>
  /\ grade_sp_ = <<>>
  /\ runIdx = 1
  /\ rpPc = "idle"
  /\ stk = <<>>
  /\ cur = 0
  /\ exPc = "idle"
  /\ child = NoChild
  /\ gate = 0
  /\ cg = NoCGroup
  /\ wallOver = FALSE
  /\ compile_log = ""
  /\ res_files = [f \in ResPaths |-> NoFile]
  /\ runner_result = <<>>
  /\ grader_result = <<>>
  /\ result = NoResult
  /\ started = <<>>
  /\ execd = {}
  /\ reaped = {}
  /\ cpu_killed = {}
  /\ threads = <<>>
  /\ dirs \in {{}, {CtorDir}}
  /\ ctor = [NoCtor EXCEPT !.pc = "mkdir"]
  /\ curr_cgroups_ = {}
  /\ ret = NoRet

\* the variables CGroup::CGroup does not touch
ctorRest == <<problem, ret, solution, judger, faults, pc, sandbox_valid,
              programs_, nodes, compile_sp_, output_sp, grade_sp_, runIdx,
              rpPc, stk, cur, exPc, child, gate, cg, wallOver, compile_log,
              res_files, runner_result, grader_result, result, started,
              execd, reaped, cpu_killed, threads, curr_cgroups_>>

\* the constructor gives up: valid_ = false; ++cnt; return
CtorFails(c) == [c EXCEPT !.valid_ = FALSE, !.cnt = @ + 1, !.pc = "done"]

\* mkdir(GetPath()): on success the loop is left; on EEXIST with
\* cnt <= 3 rmdir is tried; on any other failure the constructor gives up
CMkdir ==
  /\ ctor.pc = "mkdir"
  /\ \E err \in {"none", "EACCES"} :
       IF err = "none" /\ CtorDir \notin dirs
       THEN /\ dirs' = dirs \cup {CtorDir}
            /\ ctor' = [ctor EXCEPT !.pc = "done"]
       ELSE /\ ctor' = IF err = "none" /\ ctor.cnt <= 3
                       THEN [ctor EXCEPT !.pc = "rmdir"]
                       ELSE CtorFails(ctor)
            /\ UNCHANGED dirs
  /\ UNCHANGED ctorRest

\* rmdir(GetPath()) after EEXIST: on success `continue`, cnt as it was; on
\* failure (the directory holds a process, or is gone) the constructor
\* gives up
CRmdir ==
  /\ ctor.pc = "rmdir"
  /\ IF CtorDir \in dirs /\ ~ctor.busy
     THEN /\ dirs' = dirs \ {CtorDir}
          /\ ctor' = [ctor EXCEPT !.pc = "mkdir", !.rmdirs = @ + 1]
     ELSE /\ ctor' = CtorFails(ctor)
          /\ UNCHANGED dirs
  /\ UNCHANGED ctorRest

\* another thread's CGroup::CGroup makes the directory
OtherMkdir ==
  /\ ctor.pc \in {"mkdir", "rmdir"}
  /\ CtorDir \notin dirs
  /\ ctor.others < MaxOthers
  /\ dirs' = dirs \cup {CtorDir}
  /\ ctor' = [ctor EXCEPT !.others = @ + 1]
  /\ UNCHANGED ctorRest

\* another thread's AddProcess puts its child into the directory's cgroup
OtherAddProcess ==
  /\ ctor.pc \in {"mkdir", "rmdir"}
  /\ CtorDir \in dirs /\ ~ctor.busy
  /\ ctor' = [ctor EXCEPT !.busy = TRUE]
  /\ UNCHANGED <<dirs, ctorRest>>

\* another thread reaps its child and its CGroup::Destroy removes the
\* directory
OtherDestroy ==
  /\ ctor.pc \in {"mkdir", "rmdir"}
  /\ CtorDir \in dirs
  /\ dirs' = dirs \ {CtorDir}
  /\ ctor' = [ctor EXCEPT !.busy = FALSE]
  /\ UNCHANGED ctorRest

CNext ==
  \/ CMkdir
  \/ CRmdir
  \/ OtherMkdir
  \/ OtherAddProcess
  \/ OtherDestroy

SpecCGroup == CInit /\ [][CNext]_vars

(***************************************************************************)
(* Sandbox::Run alone, on the forests a client can build with AddProgram   *)
(* and child_: what Run and RunProgram read of an Excute is the node's     *)
(* normal_exit_, so an Excute is one step that sets it either way.         *)
(***************************************************************************)
\* a sandbox's forest: programs_ are the roots, kids[n] the child_ of node n
Forest(roots, kids) ==
  [programs_ |-> roots,
   nodes |-> [n \in DOMAIN kids |->
                [NewProgram("kProgram") EXCEPT !.child_ = kids[n]]]]

RunForests ==
  { Forest(<<1>>, <<(<<2, 3>>), <<4>>, <<5>>, <<>>, <<>>>>),
    Forest(<<1, 2>>, <<(<<>>), <<3, 5>>, <<4>>, <<>>, <<>>>>),
    Forest(<<3, 1>>, <<(<<5, 2>>), <<>>, <<4>>, <<>>, <<>>>>),
    Forest(<<1, 2, 3>>, <<(<<>>), <<>>, <<4, 5>>, <<>>, <<>>>>),
    Forest(<<1>>, <<(<<2>>), <<3>>, <<4>>, <<5>>, <<>>>>),
    Forest(<<1>>, <<(<<2, 3, 4>>), <<>>, <<5>>, <<>>, <<>>>>) }

RInit ==
  /\ \E f \in RunForests : programs_ = f.programs_ /\ nodes = f.nodes
  /\ problem = NewProblem(<<>>, "kCpp")
  /\ solution = NewSolution("kCpp")
  /\ judger = GetJudger(problem, solution)
  /\ faults = {}
  /\ pc = "run"
  /\ sandbox_valid = TRUE
  /\ compile_sp_ = 0
  /\ output_sp = <<>>
  /\ grade_sp_ = <<>>
  /\ runIdx = 1
  /\ rpPc = "idle"
  /\ stk = <<>>
  /\ cur = 0
  /\ exPc = "idle"
  /\ child = NoChild
  /\ gate = 0
  /\ cg = NoCGroup
  /\ wallOver = FALSE
  /\ compile_log = ""
  /\ res_files = [f \in ResPaths |-> NoFile]
  /\ runner_result = <<>>
  /\ grader_result = <<>>
  /\ result = NoResult
  /\ started = <<>>
  /\ execd = {}
  /\ reaped = {}
  /\ cpu_killed = {}
  /\ dirs = {}
  /\ threads = <<>>
  /\ ctor = NoCtor
  /\ curr_cgroups_ = {}
  /\ ret = NoRet

\* Sandbox::Excute(p) as Run sees it: it returns with p->normal_exit_ set
\* or not
RExcute ==
  /\ pc = "run" /\ exPc = "clone"
  /\ \E b \in BOOLEAN : nodes' = [nodes EXCEPT ![cur].normal_exit_ = b]
  /\ exPc' = "ret"
  /\ UNCHANGED <<problem, ret, solution, judger, faults, pc, sandbox_valid,
                 programs_, compile_sp_, output_sp, grade_sp_, runIdx, rpPc,
                 stk, cur, child, gate, cg, wallOver, compile_log, res_files,
                 runner_result, grader_result, result, started, execd,
                 reaped, cpu_killed, dirs, threads, ctor, curr_cgroups_>>

RNext == RunRoot \/ RExcute \/ RunProgramStep

SpecRun == RInit /\ [][RNext]_vars

(***************************************************************************)
(* The Sandbox as its client sees it: a sandbox whose constructor made it  *)
(* valid or not, the client staging files and adding programs before it    *)
(* calls Run.                                                              *)
(***************************************************************************)
\* Sandbox::CopyFile's result: -1 on an invalid sandbox and when
\* Utils::CopyFile fails
CopyFile(valid, copied) == IF ~valid THEN -1 ELSE IF copied THEN 0 ELSE -1

\* Sandbox::AddProgram: programs_ after the call
AddProgramMutUnchecked(valid, ps, n) == Append(ps, n)

AddProgram(valid, ps, n) == IF ~valid THEN ps ELSE Append(ps, n)

\* Sandbox::GetPath
GetPath(valid, path) == IF ~valid THEN "" ELSE path

SInit ==
  /\ sandbox_valid \in BOOLEAN
  /\ dirs = IF sandbox_valid THEN {StageDir(SolutionId)} ELSE {}
  /\ programs_ = <<>>
  /\ nodes = Forest(<<>>, <<(<<2>>), <<>>, <<>>>>).nodes
  /\ problem = NewProblem(<<>>, "kCpp")
  /\ solution = NewSolution("kCpp")
  /\ judger = GetJudger(problem, solution)
  /\ faults = {}
  /\ pc = "run"
  /\ compile_sp_ = 0
  /\ output_sp = <<>>
  /\ grade_sp_ = <<>>
  /\ runIdx = 1
  /\ rpPc = "idle"
  /\ stk = <<>>
  /\ cur = 0
  /\ exPc = "idle"
  /\ child = NoChild
  /\ gate = 0
  /\ cg = NoCGroup
  /\ wallOver = FALSE
  /\ compile_log = ""
  /\ res_files = [f \in ResPaths |-> NoFile]
  /\ runner_result = <<>>
  /\ grader_result = <<>>
  /\ result = NoResult
  /\ started = <<>>
  /\ execd = {}
  /\ reaped = {}
  /\ cpu_killed = {}
  /\ threads = <<>>
  /\ ctor = NoCtor
  /\ curr_cgroups_ = {}
  /\ ret = NoRet

\* the variables a staging call leaves alone
stageRest == <<problem, solution, judger, faults, pc, sandbox_valid, nodes,
               compile_sp_, output_sp, grade_sp_, runIdx, rpPc, stk, cur,
               exPc, child, gate, cg, wallOver, compile_log, runner_result,
               grader_result, result, started, execd, reaped, cpu_killed,
               dirs, threads, ctor, curr_cgroups_>>

\* sandbox.AddFile(dst, src): dst in the stage becomes a link to src
SAddFile ==
  /\ pc = "run" /\ rpPc = "idle" /\ started = <<>>
  /\ \E dst \in ResPaths, linked \in BOOLEAN :
       LET r == AddFile(sandbox_valid, linked)
       IN  /\ ret' = [op |-> "AddFile", val |-> r]
           /\ res_files' = IF r = 0
                           THEN [res_files EXCEPT ![dst] = EmptyFile]
                           ELSE res_files
  /\ UNCHANGED <<programs_, stageRest>>

\* sandbox.CopyFile(dst, src): dst in the stage becomes a copy of src
SCopyFile ==
  /\ pc = "run" /\ rpPc = "idle" /\ started = <<>>
  /\ \E dst \in ResPaths, copied \in BOOLEAN :
       LET r == CopyFile(sandbox_valid, copied)
       IN  /\ ret' = [op |-> "CopyFile", val |-> r]
           /\ res_files' = IF r = 0
                           THEN [res_files EXCEPT ![dst] = EmptyFile]
                           ELSE res_files
  /\ UNCHANGED <<programs_, stageRest>>

\* sandbox.AddProgram(program)
SAddProgram ==
  /\ pc = "run" /\ rpPc = "idle" /\ started = <<>>
  /\ Len(programs_) < MaxPrograms
  /\ \E n \in DOMAIN nodes :
       /\ \A i \in DOMAIN programs_ : programs_[i] # n
       /\ programs_' = AddProgram(sandbox_valid, programs_, n)
  /\ ret' = [op |-> "AddProgram", val |-> 0]
  /\ UNCHANGED <<res_files, stageRest>>

\* sandbox.GetPath()
SGetPath ==
  /\ pc = "run" /\ rpPc = "idle" /\ started = <<>>
  /\ ret' = [op |-> "GetPath",
             val |-> GetPath(sandbox_valid, StageDir(SolutionId) \o "/")]
  /\ UNCHANGED <<programs_, res_files, stageRest>>

SNext ==
  \/ SAddFile \/ SCopyFile \/ SAddProgram \/ SGetPath
  \/ RunRoot \/ RExcute \/ RunProgramStep

SpecSandbox == SInit /\ [][SNext]_vars

(***************************************************************************)
(* Judger::Converge alone, on lists of up to MaxLen per-case results of    *)
(* the runner and the grader.                                              *)
(***************************************************************************)
\* the runner's and the grader's result of one case
KCases ==
  { [r |-> [EmptyTestCaseResult EXCEPT !.state_ = rs],
     g |-> [EmptyTestCaseResult EXCEPT !.state_ = gs[1], !.score_ = gs[2]]] :
      rs \in {"AC", "RE", "TLE", "CE"},
      gs \in {<<"AC", MaxScore>>, <<"WA", 0>>} }

KInit ==
  /\ \E n \in 0..MaxLen :
       \E cs \in [1..n -> KCases] :
         /\ runner_result = [i \in 1..n |-> cs[i].r]
         /\ grader_result = [i \in 1..n |-> cs[i].g]
  /\ pc = "v_converge"
  /\ problem = NewProblem(<<>>, "kCpp")
  /\ solution = NewSolution("kCpp")
  /\ judger = GetJudger(problem, solution)
  /\ faults = {}
  /\ sandbox_valid = TRUE
  /\ programs_ = <<>>
  /\ nodes = <<>>
  /\ compile_sp_ = 0
  /\ output_sp = <<>>
  /\ grade_sp_ = <<>>
  /\ runIdx = 1
  /\ rpPc = "idle"
  /\ stk = <<>>
  /\ cur = 0
  /\ exPc = "idle"
  /\ child = NoChild
  /\ gate = 0
  /\ cg = NoCGroup
  /\ wallOver = FALSE
  /\ compile_log = ""
  /\ res_files = [f \in ResPaths |-> NoFile]
  /\ result = NoResult
  /\ started = <<>>
  /\ execd = {}
  /\ reaped = {}
  /\ cpu_killed = {}
  /\ dirs = {}
  /\ threads = <<>>
  /\ ctor = NoCtor
  /\ curr_cgroups_ = {}
  /\ ret = NoRet

KNext == VConverge

SpecConverge == KInit /\ [][KNext]_vars

(***************************************************************************)
(* Properties.                                                             *)
(***************************************************************************)
Range(f) == { f[i] : i \in 1..Len(f) }
Cases == result.testcase_rel_
CaseStates == { Cases[i].state_ : i \in 1..Len(Cases) }
\* the sum of the scores of cases i, i + 1, ...
RECURSIVE SumScores(_, _)
SumScores(cases, i) ==
  IF i > Len(cases) THEN 0 ELSE cases[i].score_ + SumScores(cases, i + 1)

\* C1: in every Result, case i has the grader's state, info and score and the
\* runner's time and memory if the runner's state for i is AC, and is the
\* runner's result unchanged otherwise.
C1_ConvergePerCase ==
  pc = "done" =>
    /\ Len(Cases) = Len(runner_result)
    /\ \A i \in 1..Len(runner_result) :
         LET r == runner_result[i]
             g == grader_result[i]
             c == Cases[i]
         IN  IF r.state_ = "AC"
             THEN /\ c.state_ = g.state_
                  /\ c.info_ = g.info_
                  /\ c.score_ = g.score_
                  /\ c.time_ms_ = r.time_ms_
                  /\ c.mem_byte_ = r.mem_byte_
                  /\ c.id_ = r.id_
             ELSE c = r

\* a Result with a case the runner judged AC and the checker WA with a
\* message and a partial score, after a run within the limits that used
\* time and memory, and a case the runner judged RE
C1_Witness ==
  /\ pc = "done"
  /\ \E i, j \in 1..Len(runner_result) :
       /\ runner_result[i].state_ = "AC"
       /\ runner_result[i].time_ms_ > 0
       /\ grader_result[i].state_ = "WA"
       /\ grader_result[i].score_ > 0
       /\ grader_result[i].info_ # ""
       /\ runner_result[j].state_ = "RE"
       /\ grader_result[j] # runner_result[j]

\* C2: in every Result, overall AC means every case is AC, and an overall
\* state X among WA, RE, TLE, MLE, FPE means that some case has state X and
\* every non-AC case has state X.
C2_OverallSingleState ==
  pc = "done" =>
    /\ result.state_ = "AC" => CaseStates \subseteq {"AC"}
    /\ result.state_ \in {"WA", "RE", "TLE", "MLE", "FPE"} =>
         CaseStates \ {"AC"} = {result.state_}

\* a Result whose overall state is that of its second case, after an AC
\* first case, and one whose two cases share a non-AC state
C2_Witness ==
  /\ pc = "done"
  /\ Len(Cases) = 2
  /\ result.state_ \in {"WA", "RE", "TLE", "MLE", "FPE"}
  /\ Cases[1].state_ = "AC"
  /\ Cases[2].state_ = result.state_

\* C3: in every Result, the overall state is MUL only if at least two
\* distinct states other than AC and CE appear among the cases.
C3_MulNeedsTwoStates ==
  (pc = "done" /\ result.state_ = "MUL") =>
    Cardinality(CaseStates \ {"AC", "CE"}) >= 2

\* a Result with overall state MUL
C3_Witness ==
  /\ pc = "done"
  /\ result.state_ = "MUL"

\* C4 as claimed: in every Result, the overall state is CE if and only if
\* every case is CE.
C4_Original ==
  pc = "done" => (result.state_ = "CE" <=> CaseStates \subseteq {"CE"})

\* C4, amended: in every Result for a problem with at least one test case,
\* the overall state is CE if and only if every case is CE.
C4_CeIffAllCe ==
  (pc = "done" /\ NumCases >= 1) =>
    (result.state_ = "CE" <=> CaseStates \subseteq {"CE"})

\* a Result with overall state CE for a problem with two test cases
C4_Witness ==
  /\ pc = "done"
  /\ result.state_ = "CE"
  /\ Len(Cases) = 2

\* C5: in every Result, the total score is the sum of the cases' scores.
C5_TotalIsSum ==
  pc = "done" => result.score_ = SumScores(Cases, 1)

\* a Result with a positive total to which a WA case contributes a partial
\* score
C5_Witness ==
  /\ pc = "done"
  /\ result.score_ > 0
  /\ \E i \in 1..Len(Cases) : Cases[i].state_ = "WA" /\ Cases[i].score_ > 0

\* C6: in every Result, every case's score is at least 0 and at most the
\* full score of its test case.
C6_ScoreInRange ==
  pc = "done" =>
    \A i \in 1..Len(Cases) :
      0 <= Cases[i].score_ /\ Cases[i].score_ <= problem.test_case_[i].score_

\* a Result with a case whose run node was judged AC and whose checker exited
\* normally having written a score above the full score
C6_Witness ==
  /\ pc = "done"
  /\ \E i \in 1..Len(Cases) :
       /\ runner_result[i].state_ = "AC"
       /\ nodes[grade_sp_[i]].normal_exit_
       /\ ParseInt(res_files[nodes[grade_sp_[i]].output_].line1).val >
            problem.test_case_[i].score_

\* C7: every Result has one case per test case of the problem, in test-case
\* order: the runner's results, the grader's results and the cases all have
\* the length of problem.test_case_, and entry i of each comes from the run
\* node reading ./<i>.in and from the checker reading that node's output.
C7_OneCasePerTestCase ==
  pc = "done" =>
    /\ Len(Cases) = NumCases
    /\ Len(runner_result) = NumCases
    /\ Len(grader_result) = NumCases
    /\ Len(output_sp) = NumCases
    /\ Len(grade_sp_) = NumCases
    /\ \A i \in 1..NumCases :
         /\ nodes[output_sp[i]].input_ = "./" \o ToString(i - 1) \o ".in"
         /\ nodes[grade_sp_[i]].input_ = nodes[output_sp[i]].output_
         /\ nodes[grade_sp_[i]].output_ = "./" \o ToString(i - 1) \o ".res"

\* a Result for a problem with two test cases
C7_Witness ==
  /\ pc = "done"
  /\ NumCases = 2
  /\ Len(Cases) = 2

\* C8: every node Excute was called for, other than a root, has a parent
\* for which Excute was called earlier and which was reaped with
\* normal_exit_ (so the same holds of the parent, up to the root); hence
\* below a node that did not finish with normal_exit_ nothing is executed.
C8_ChildAfterParentNormalExit ==
  \A p \in 1..Len(nodes) :
    \A c \in 1..Len(nodes[p].child_) :
      \A t \in 1..Len(started) :
        started[t] = nodes[p].child_[c] =>
          /\ p \in reaped
          /\ nodes[p].normal_exit_
          /\ \E s \in 1..(t - 1) : started[s] = p

\* the run is over: a checker was executed below a run node that exited
\* normally, and another run node failed and its checker was not executed
C8_Witness ==
  /\ pc = "done"
  /\ \E i, j \in 1..Len(output_sp) :
       /\ grade_sp_[i] \in Range(started)
       /\ output_sp[j] \in reaped
       /\ ~nodes[output_sp[j]].normal_exit_
       /\ grade_sp_[j] \notin Range(started)

C10_CompileError ==
  /\ \A s \in 1..Len(started) :
       started[s] # compile_sp_ => nodes[compile_sp_].normal_exit_
  /\ (pc \in {"done", "crashed"} /\ ~nodes[compile_sp_].normal_exit_) =>
       /\ pc = "done"
       /\ Range(started) = {compile_sp_}
       /\ Len(Cases) = NumCases
       /\ \A i \in 1..Len(Cases) :
            Cases[i].state_ = "CE" /\ Cases[i].score_ = 0
       /\ result.state_ = "CE"
       /\ result.score_ = 0
       /\ Cases[1].info_ = compile_log
       /\ result.info_ = compile_log

\* C10 for the Results that are produced: after a compile node that did not
\* finish with normal_exit_ only the compile node was executed, every case is
\* CE with score 0, the overall state is CE with score 0, and the text of
\* compile.log is the info of case 0 and of the Result.
C10_CompileErrorResult ==
  (pc = "done" /\ ~nodes[compile_sp_].normal_exit_) =>
    /\ Range(started) = {compile_sp_}
    /\ Len(Cases) = NumCases
    /\ \A i \in 1..Len(Cases) :
         Cases[i].state_ = "CE" /\ Cases[i].score_ = 0
    /\ result.state_ = "CE"
    /\ result.score_ = 0
    /\ Cases[1].info_ = compile_log
    /\ result.info_ = compile_log

\* a Result for two test cases after g++ exited with an error and left
\* diagnostics in compile.log
C10_Witness ==
  /\ pc = "done"
  /\ NumCases = 2
  /\ compile_sp_ \in reaped
  /\ ~nodes[compile_sp_].normal_exit_
  /\ compile_log # ""

C14_UnparseableIsUkn ==
  pc = "done" =>
    \A i \in 1..Len(grade_sp_) :
      LET gp == nodes[grade_sp_[i]]
          file == res_files[gp.output_]
      IN  (/\ gp.normal_exit_
           /\ \/ ~file.exists
              \/ file.nlines = 0
              \/ ~ParseInt(file.line1).ok) =>
            grader_result[i].state_ = "UKN"

\* C15 as claimed: in every Result, a case whose run node was reaped with a
\* wait status showing the signal of the seccomp filter's kill action is RE,
\* or MLE when the node's cgroup_oom_ is set.
C15_SeccompKillIsRe ==
  pc = "done" =>
    \A i \in 1..Len(output_sp) :
      LET sp == nodes[output_sp[i]]
      IN  (/\ output_sp[i] \in reaped
           /\ ~WIFEXITED(sp.state_)
           /\ WIFSIGNALED(sp.state_)
           /\ WTERMSIG(sp.state_) = SIGSYS) =>
            Cases[i].state_ = IF sp.cgroup_oom_ THEN "MLE" ELSE "RE"

\* C16 as claimed: the step of Excute that reaps the child leaves in the
\* node the wait status, the cgroup's CPU time as time_ms_, the cgroup's
\* peak memory as mem_byte_, whether the cgroup saw an OOM event as
\* cgroup_oom_, and normal_exit_ true exactly for an exit with code 0.
C16_ReapRecords ==
  [][(exPc = "wait" /\ exPc' = "ret" /\ reaped' # reaped) =>
       /\ nodes'[cur].state_ = child.status
       /\ nodes'[cur].time_ms_ = cg.cpu
       /\ nodes'[cur].mem_byte_ = cg.peak
       /\ nodes'[cur].cgroup_oom_ = cg.oom
       /\ nodes'[cur].normal_exit_ =
            (WIFEXITED(child.status) /\ WEXITSTATUS(child.status) = 0)]_vars

\* C17 as claimed: a child past SetSandbox has the kill filter and the
\* chroot exactly when its node is not a compile node, and a child of a
\* node that is not a compile node whose program invoked a syscall of
\* kKilledProgramSyscalls terminated by a signal, its node never having
\* normal_exit_ true.
C17_FilterKills ==
  /\ child.pc \in {"gate", "running", "spinning"} =>
       /\ child.seccomp = (nodes[cur].type_ # "kCompile")
       /\ child.chroot = (nodes[cur].type_ # "kCompile")
  /\ (/\ child.pc \in {"zombie", "reaped"}
      /\ child.did \in {"syscall", "syscall_thread"}
      /\ nodes[cur].type_ # "kCompile") =>
       /\ ~WIFEXITED(child.status)
       /\ WIFSIGNALED(child.status)
       /\ ~nodes[cur].normal_exit_

\* C20 as claimed: once Judge() has returned, with a result or with
\* nullptr, neither the stage directory nor any cgroup directory that the
\* run created is left on disk.
C20_NothingLeft ==
  pc \in {"done", "null"} => dirs = {}

\* C21 as claimed: when Excute returns, on every path, the child it
\* spawned (if it spawned one) has been reaped by waitpid, so that no child
\* of an earlier node is left when the next node is spawned.
C21_ReapedBeforeReturn ==
  exPc = "ret" => child.pc \in {"none", "reaped"}

\* C22 as claimed: the supervision loop ends for every behaviour of the
\* child, Excute returning to its caller, and Judge() eventually returns,
\* with a Result or with nullptr.
C22_JudgeReturns ==
  /\ (exPc = "wait") ~> (exPc = "ret")
  /\ <>(pc \in {"done", "null"})

\* C22, the part about the supervision loop: it ends for every behaviour
\* of the child, and Judge() gets past sandbox.Run() to GetResult.
C22_LoopTerminates ==
  /\ (exPc = "wait") ~> (exPc = "ret")
  /\ <>(pc \in {"done", "null", "crashed"})

\* C23 as claimed: Judge() returns a Result only if no Excute of the run
\* gave up on an infrastructure fault (pipe or clone failed, no cgroup, a
\* cgroup control file not opened, the start gate not written), that is,
\* only if every node Excute was called for had its child reaped.
C23_FaultIsNull ==
  pc = "done" => \A i \in 1..Len(started) : started[i] \in reaped

\* C26 as claimed: once Judge() has returned, with a Result or with
\* nullptr, set_value has been called on the Judger's promise exactly once.
C26_PromiseFulfilled ==
  pc \in {"done", "null"} => judger.ok_ = 1

\* C27 as claimed, for the part of the child's life after the start gate:
\* while the child of a node whose program was exec'ed is not yet reaped,
\* the node's cgroup handle is alive, its directory is on disk, and the
\* child is a process of that cgroup.
C27_InCGroupUntilReaped ==
  (cur \in execd /\ child.pc \in {"running", "spinning", "zombie"}) =>
    /\ cg.exists
    /\ CGroupDir(nodes[cur].exe_) \in dirs
    /\ cg.procs

\* C32 as claimed: a node for which the parent did not get the cgroup, did
\* not get the child's pid into cgroup.procs, did not get the memory limit
\* into memory.max or did not write the gate value is aborted: its child
\* never execs the program, the node keeps normal_exit_ false and none of
\* its children is executed.
C32_FailureAborts ==
  LET limit == nodes[cur].memory_limit_
      failed ==
        \/ exPc = "ret" /\ child # NoChild /\ cur \notin reaped
        \/ exPc \in {"memlimit", "gate", "wait"} /\ ~cg.procs
        \/ /\ exPc \in {"gate", "wait"}
           /\ limit # NullOpt /\ cg.memmax # limit
  IN  (cur # 0 /\ failed) =>
        /\ cur \notin execd
        /\ ~nodes[cur].normal_exit_
        /\ \A i \in DOMAIN started :
             \A k \in DOMAIN nodes[cur].child_ :
               started[i] # nodes[cur].child_[k]

\* C35: a child that the supervision loop killed (it ended by SIGKILL
\* without having ended by itself) either belongs to a node with a time
\* limit whose cgroup's CPU time exceeds the limit, or was running for more
\* than kMaxProcessTime; so a child within both bounds is not killed, with
\* or without a time limit and with the CPU time readable or not.
C35_KillOnlyOverLimit ==
  (/\ exPc = "wait" /\ child.pc = "zombie"
   /\ child.did = "none" /\ child.status = SIGKILL)
  => \/ /\ nodes[cur].time_limit_ # NullOpt
        /\ GetRunTimems(cg) > nodes[cur].time_limit_
     \/ wallOver

\* C35's case: the supervision loop killed the child of a node without a
\* time limit, on the wall clock
C35_Witness ==
  /\ exPc = "wait" /\ child.pc = "zombie"
  /\ child.did = "none" /\ child.status = SIGKILL
  /\ nodes[cur].time_limit_ = NullOpt
  /\ wallOver

\* C36 as claimed: in every Result, for a case whose run node did not
\* finish with normal_exit_ the runner's verdict is not AC, and the case's
\* verdict is the runner's.
C36_FailedRunIsNotAc ==
  pc = "done" =>
    \A i \in 1..Len(output_sp) :
      ~nodes[output_sp[i]].normal_exit_ =>
        /\ runner_result[i].state_ # "AC"
        /\ Cases[i].state_ = runner_result[i].state_

\* C37: in every Result, a case whose run node was reaped with SIGKILL
\* that the supervision loop did not send for the CPU time, as when it is
\* sent on the wall clock, with the node's time_ms_ within its time limit,
\* its mem_byte_ within its memory limit and no cgroup_oom_, is RE with
\* score 0.
C37_WallKillIsRe ==
  pc = "done" =>
    \A i \in 1..Len(output_sp) :
      LET sp == nodes[output_sp[i]]
      IN  (/\ output_sp[i] \in reaped
           /\ output_sp[i] \notin cpu_killed
           /\ ~WIFEXITED(sp.state_)
           /\ WIFSIGNALED(sp.state_)
           /\ WTERMSIG(sp.state_) = SIGKILL
           /\ ~sp.cgroup_oom_
           /\ sp.time_ms_ <= sp.time_limit_
           /\ sp.mem_byte_ <= sp.memory_limit_) =>
            Cases[i].state_ = "RE" /\ Cases[i].score_ = 0

\* C37's case: the run node of the first case ended by SIGKILL having used
\* no CPU time and no memory (the program blocked, and the supervision
\* loop killed it on the wall clock), and the case is RE
C37_Witness ==
  /\ pc = "done"
  /\ Len(output_sp) > 0
  /\ output_sp[1] \in reaped
  /\ output_sp[1] \notin cpu_killed
  /\ nodes[output_sp[1]].state_ = SIGKILL
  /\ nodes[output_sp[1]].time_ms_ = 0
  /\ nodes[output_sp[1]].mem_byte_ = 0
  /\ Cases[1].state_ = "RE"

\* C39: during Run a node that has not been executed has its initial
\* outcome (state_ 0, time_ms_ 0, mem_byte_ 0, normal_exit_ false), and a
\* step of Run changes no node but the one in execution, of which it
\* changes nothing but state_, time_ms_, mem_byte_, normal_exit_ and
\* cgroup_oom_.
C39_RunFrame ==
  /\ [](pc = "run" =>
         \A n \in DOMAIN nodes :
           (\A i \in DOMAIN started : started[i] # n) =>
             /\ nodes[n].state_ = 0
             /\ nodes[n].time_ms_ = 0
             /\ nodes[n].mem_byte_ = 0
             /\ ~nodes[n].normal_exit_)
  /\ [][pc = "run" =>
         \A n \in DOMAIN nodes :
           nodes'[n] # nodes[n] =>
             /\ n = cur
             /\ \E i \in DOMAIN started : started[i] = n
             /\ [nodes'[n] EXCEPT !.state_ = 0, !.time_ms_ = 0,
                                  !.mem_byte_ = 0, !.normal_exit_ = FALSE,
                                  !.cgroup_oom_ = FALSE]
                = [nodes[n] EXCEPT !.state_ = 0, !.time_ms_ = 0,
                                   !.mem_byte_ = 0, !.normal_exit_ = FALSE,
                                   !.cgroup_oom_ = FALSE]]_vars

\* C39's case: Run has returned having executed a run node that failed and
\* skipped that node's checker
C39_Witness ==
  /\ pc = "run" /\ rpPc = "idle" /\ runIdx > Len(programs_)
  /\ Len(output_sp) > 0
  /\ output_sp[1] \in reaped
  /\ nodes[output_sp[1]].state_ # 0
  /\ \A i \in DOMAIN started : started[i] # grade_sp_[1]

\* C31: after SetRunner and SetGrader the graph is the compile root with one
\* run node per test case, in case order; run node i has exactly one child,
\* the checker node that reads run i's stdout, has the argument i and writes
\* ./i.res; the grader's list holds these checker nodes, in case order.
C31_GraphShape ==
  pc \in {"run", "done"} =>
    /\ programs_ = <<compile_sp_>>
    /\ Len(nodes) = 1 + 2 * NumCases
    /\ nodes[compile_sp_].type_ = "kCompile"
    /\ nodes[compile_sp_].child_ = output_sp
    /\ Len(output_sp) = NumCases
    /\ Len(grade_sp_) = NumCases
    /\ \A i \in 1..NumCases :
         LET run == nodes[output_sp[i]]
             checker == nodes[grade_sp_[i]]
         IN  /\ run.type_ = "kProgram"
             /\ run.input_ = "./" \o ToString(i - 1) \o ".in"
             /\ run.output_ = "./" \o ToString(i - 1) \o ".out"
             /\ run.time_limit_ = problem.test_case_[i].time_limit_
             /\ run.memory_limit_ = problem.test_case_[i].mem_limit_
             /\ run.child_ = <<grade_sp_[i]>>
             /\ checker.type_ = "kJudger"
             /\ checker.input_ = run.output_
             /\ checker.args_ = <<ToString(i - 1)>>
             /\ checker.output_ = "./" \o ToString(i - 1) \o ".res"
             /\ checker.child_ = <<>>
    /\ \A i, j \in 1..NumCases :
         i # j => output_sp[i] # output_sp[j] /\ grade_sp_[i] # grade_sp_[j]

\* C31's case: both setters have built the graph of a problem with the most
\* test cases, and nothing has been executed yet
C31_Witness ==
  /\ pc = "run" /\ started = <<>>
  /\ NumCases = MaxCases
  /\ Len(grade_sp_) = MaxCases

(***************************************************************************)
(* Properties of Judge() on every host (specification SpecStage).          *)
(***************************************************************************)
\* C24 as claimed: when the sandbox is invalid, or the source, the input
\* of the test case or the checker binary cannot be staged, Judge() runs
\* no program and returns nullptr, not a Result.
C24_SetupFailureIsNull ==
  (started # <<>> \/ pc = "done") =>
    sandbox_valid /\ faults = {}

\* C33 as claimed: constructing the Sandbox of Judge() on a stage directory
\* that already exists does not take the directory over: the sandbox it
\* constructs is not valid (and so removes nothing when dropped).
C33_NoTakeOver ==
  [][(pc = "start" /\ StageDir(SolutionId) \in dirs) => ~sandbox_valid']_vars

(***************************************************************************)
(* Properties of the factory (specification SpecFactory).                  *)
(***************************************************************************)
\* C25 as claimed: for a pair of languages other than the wired one (a C++
\* solution with a C++ checker) the factory yields no Judger, and a Judger
\* it yields has both its runner and its grader.
C25_NoJudgerUnlessWired ==
  pc = "made" =>
    IF problem.checker_language_ = "kCpp" /\ solution.language_ = "kCpp"
    THEN /\ judger.has_value
         /\ judger.runner_ # "null"
         /\ judger.grader_ # "null"
    ELSE ~judger.has_value

(***************************************************************************)
(* Properties of CGroup::CGroup (specification SpecCGroup).                *)
(***************************************************************************)
\* C28 as claimed: the constructor removes an existing directory at most 3
\* times, and when it ends without having made the directory the handle
\* is invalid.
C28_AtMostThreeAttempts ==
  /\ ctor.rmdirs <= 3
  /\ (ctor.pc = "done" /\ ctor.cnt > 0) => ~ctor.valid_

(***************************************************************************)
(* Properties of Sandbox::Run (specification SpecRun).                     *)
(***************************************************************************)
\* C30: Run executes the nodes in the forest's depth-first pre-order, roots
\* and siblings in insertion order: the nodes executed so far are in
\* pre-order, none twice; a node that precedes the last executed node in
\* pre-order and whose ancestors all exited normally has been executed; and
\* when Run has returned, every root and every node whose ancestors all
\* exited normally has been executed.
C30_PreOrder ==
  LET RECURSIVE Pre(_)
      Pre(ns) == IF ns = <<>> THEN <<>>
                 ELSE <<Head(ns)>> \o Pre(nodes[Head(ns)].child_)
                        \o Pre(Tail(ns))
      order == Pre(programs_)
      Pos(n) == CHOOSE i \in DOMAIN order : order[i] = n
      Parents(n) == { m \in DOMAIN nodes :
                        \E k \in DOMAIN nodes[m].child_ :
                          nodes[m].child_[k] = n }
      RECURSIVE Open(_)
      Open(n) == \A m \in Parents(n) : nodes[m].normal_exit_ /\ Open(m)
      Started == { started[i] : i \in DOMAIN started }
      returned == rpPc = "idle" /\ runIdx > Len(programs_)
  IN  /\ \A i, j \in DOMAIN started :
           i < j => Pos(started[i]) < Pos(started[j])
      /\ \A n \in DOMAIN nodes :
           (/\ Open(n)
            /\ \/ returned
               \/ started # <<>> /\ Pos(n) < Pos(started[Len(started)]))
           => n \in Started

\* C30's case: Run has returned from a forest of two roots whose first root
\* failed; below the second root, the first child's subtree was executed
\* before the next sibling
C30_Witness ==
  /\ rpPc = "idle" /\ runIdx > Len(programs_)
  /\ programs_ = <<1, 2>>
  /\ ~nodes[1].normal_exit_
  /\ started = <<1, 2, 3, 4, 5>>

(***************************************************************************)
(* Properties of the Sandbox's methods (specification SpecSandbox).        *)
(***************************************************************************)
\* C34: on an invalid sandbox AddFile and CopyFile return -1 and GetPath
\* returns the empty string, no file is made in the stage, the program list
\* stays empty and Run executes no program.
C34_InvalidNoEffect ==
  ~sandbox_valid =>
    /\ ret.op \in {"AddFile", "CopyFile"} => ret.val = -1
    /\ ret.op = "GetPath" => ret.val = ""
    /\ \A f \in ResPaths : res_files[f] = NoFile
    /\ programs_ = <<>>
    /\ started = <<>>
    /\ dirs = {}

\* C34's case: AddProgram was called on an invalid sandbox
C34_Witness == ~sandbox_valid /\ ret.op = "AddProgram"

(***************************************************************************)
(* Properties of Judger::Converge (specification SpecConverge).            *)
(***************************************************************************)
\* C38: for per-case results without CE, the overall state and the total
\* score of the Result that Converge made are those Converge makes of every
\* permutation of the cases.
C38_OrderIndependent ==
  LET n == Len(runner_result)
      NoCe == \A i \in 1..n : ConvergeCase(runner_result[i],
                                            grader_result[i]).state_ # "CE"
      Perms == { f \in [1..n -> 1..n] :
                   \A i, j \in 1..n : f[i] = f[j] => i = j }
  IN  (pc = "v_done" /\ NoCe) =>
        \A f \in Perms :
          LET other == Converge([i \in 1..n |-> runner_result[f[i]]],
                                [i \in 1..n |-> grader_result[f[i]]],
                                SolutionId)
          IN  other.state_ = result.state_ /\ other.score_ = result.score_

\* C38's case: Converge has folded three cases without CE, the first and
\* the last with the same non-AC state and the second with another, into
\* MUL
C38_Witness ==
  /\ pc = "v_done"
  /\ Len(Cases) = 3
  /\ \A i \in 1..3 : Cases[i].state_ \notin {"AC", "CE"}
  /\ Cases[1].state_ = Cases[3].state_
  /\ Cases[1].state_ # Cases[2].state_
  /\ result.state_ = "MUL"

(***************************************************************************)
(* Properties of concurrent Judge() calls (specification SpecThreads).     *)
(***************************************************************************)
\* whether thread t holds a cgroup made for the node it executes
HoldsCGroup(t) == threads[t].exPc \in {"addproc", "memlimit", "gate", "wait"}

\* C29 as claimed: the registry holds exactly the names of the cgroup
\* handles that are valid, and no two valid handles have the same name.
C29_RegistryHoldsNames ==
  /\ curr_cgroups_ =
       { GetFileName(threads[t].nodes[threads[t].cur].exe_) :
           t \in { u \in ThreadIds : HoldsCGroup(u) } }
  /\ \A t, u \in ThreadIds :
       (t # u /\ HoldsCGroup(t) /\ HoldsCGroup(u)) =>
         GetFileName(threads[t].nodes[threads[t].cur].exe_) #
           GetFileName(threads[u].nodes[threads[u].cur].exe_)

\* C18 as claimed: two concurrent Judge() calls with different solution
\* ids never use the same stage directory, and never hold at the same time
\* cgroups of the same name.
C18_NamesDistinct ==
  \A t, u \in ThreadIds :
    t # u =>
      /\ StageDir(ThreadSolutionId(t)) # StageDir(ThreadSolutionId(u))
      /\ (HoldsCGroup(t) /\ HoldsCGroup(u)) => ThreadCGroup(t) # ThreadCGroup(u)

\* C19 as claimed: every one of the concurrent Judge() calls on the
\* accepted submission returns a result whose state is AC and whose every
\* case is AC.
C19_AllAc ==
  \A t \in ThreadIds :
    threads[t].pc = "done" =>
      /\ threads[t].result.state_ = "AC"
      /\ \A i \in 1..Len(threads[t].result.testcase_rel_) :
           threads[t].result.testcase_rel_[i].state_ = "AC"

(***************************************************************************)
(* Properties of the verdict functions (specification SpecVerdict).        *)
(***************************************************************************)
\* the run node and the checker node of the one test case
VRun == nodes[output_sp[1]]
VChecker == nodes[grade_sp_[1]]
VOverTime == VRun.time_limit_ # NullOpt /\ VRun.time_ms_ > VRun.time_limit_
VOverMem == VRun.memory_limit_ # NullOpt /\ VRun.mem_byte_ > VRun.memory_limit_
VKilledBy(sig) ==
  ~WIFEXITED(VRun.state_) /\ WIFSIGNALED(VRun.state_) /\ WTERMSIG(VRun.state_) = sig
VExitedWith(code) == WIFEXITED(VRun.state_) /\ WEXITSTATUS(VRun.state_) = code

\* C11: the runner's verdict for a run node, for every wait status,
\* cgroup_oom_, time against the limit and memory against the limit: exit
\* code 1 is RE "return value is not zero."; SIGSEGV is RE "segment
\* fault."; SIGFPE is FPE; SIGKILL with cgroup_oom_ is MLE; otherwise (exit
\* code 0, or SIGKILL without cgroup_oom_) a time above the limit is TLE,
\* else a memory above the limit is MLE, else SIGKILL is RE and exit code 0
\* is AC; the score is 0 and time and memory are the node's.
C11_DecisionTable ==
  pc \in {"v_grader", "v_converge", "v_done"} =>
    LET r == runner_result[1]
    IN  /\ r.score_ = 0
        /\ r.time_ms_ = VRun.time_ms_
        /\ r.mem_byte_ = VRun.mem_byte_
        /\ VExitedWith(1) =>
             r.state_ = "RE" /\ r.info_ = "return value is not zero."
        /\ VKilledBy(SIGSEGV) => r.state_ = "RE" /\ r.info_ = "segment fault."
        /\ VKilledBy(SIGFPE) => r.state_ = "FPE"
        /\ (VKilledBy(SIGKILL) /\ VRun.cgroup_oom_) => r.state_ = "MLE"
        /\ (VExitedWith(0) \/ (VKilledBy(SIGKILL) /\ ~VRun.cgroup_oom_)) =>
             /\ VOverTime => r.state_ = "TLE"
             /\ (~VOverTime /\ VOverMem) => r.state_ = "MLE"
             /\ (~VOverTime /\ ~VOverMem) =>
                  r.state_ = IF VExitedWith(0) THEN "AC" ELSE "RE"

\* the verdict of a run node killed by SIGKILL without cgroup_oom_, above
\* both its time limit and its memory limit: TLE
C11_Witness ==
  /\ pc = "v_done"
  /\ VKilledBy(SIGKILL)
  /\ ~VRun.cgroup_oom_
  /\ VOverTime
  /\ VOverMem
  /\ runner_result[1].state_ = "TLE"

\* the checker's output file of the one test case and its full score
VFile == res_files[VChecker.output_]
VFull == problem.test_case_[1].score_

\* C13: the grader's result for a checker node: without normal_exit_ it is
\* UKN "judge error" with score 0; with normal_exit_ and a file whose
\* first line is the number k, it is UKN with score 0 if k is above the
\* full score or below -1, AC with the full score if k is the full score
\* or -1, and WA with score k otherwise, and in the last two cases the info
\* is line 2 of the file.
C13_CheckerProtocol ==
  pc \in {"v_converge", "v_done"} =>
    LET g == grader_result[1]
    IN  /\ ~VChecker.normal_exit_ =>
             g.state_ = "UKN" /\ g.info_ = "judge error" /\ g.score_ = 0
        /\ VChecker.normal_exit_ =>
             \A k \in CheckerScores :
               (VFile.exists /\ VFile.nlines = 2 /\ VFile.line1 = IntToChars(k)) =>
                 IF k > VFull \/ k < -1
                 THEN g.state_ = "UKN" /\ g.score_ = 0
                 ELSE IF k = VFull \/ k = -1
                 THEN g.state_ = "AC" /\ g.score_ = VFull /\ g.info_ = VFile.line2
                 ELSE g.state_ = "WA" /\ g.score_ = k /\ g.info_ = VFile.line2

\* the grader's result for a checker that exited normally and wrote -1 and
\* a message, for a test case with a positive full score
C13_Witness ==
  /\ pc = "v_done"
  /\ VChecker.normal_exit_
  /\ VFile.exists
  /\ VFile.line1 = IntToChars(-1)
  /\ VFile.line2 # ""
  /\ VFull > 0
  /\ grader_result[1].state_ = "AC"
  /\ grader_result[1].score_ = VFull

=============================================================================
